---- MODULE Spec2Model ----
(***************************************************************************)
(* Instrument signature removal (lsst.ip.isr, isr.py): the exposure's      *)
(* image, mask and variance planes and the correction operations that      *)
(* mutate them in place.                                                    *)
(*                                                                         *)
(* Pixel values are fixed point, in units of half a count, so that the     *)
(* test ramp 2+i-0.5, 2+i, 2+i+0.5 is representable: Counts(10) is the     *)
(* pixel value 10.0.  A statistic that is not a multiple of half a count   *)
(* is quantised to the unit below it.                                      *)
(***************************************************************************)
EXTENDS Integers, Sequences, FiniteSets, TLC

VARIABLES
    dims,           \* <<width, height>> of the exposure's masked image
    image,          \* image plane: pixel -> value
    mask,           \* mask plane: pixel -> bit flags
    variance,       \* variance plane: pixel -> value
    maskPlaneDict,  \* the mask-plane registry: plane name -> bit index
    overscanBBox,   \* the overscan region handed to overscanCorrection
    defectList,     \* the defect catalogue the caller holds
    image0,         \* the three planes at entry to the last call
    mask0,
    variance0,
    last,           \* the last call: operation, arguments, outcome
    calls,          \* number of calls made
    calib,          \* the calibration frame at hand (bias, dark, flat)
    calibXY0,       \* origin of the calibration frame in its parent
    gain,           \* gain of the amplifier the exposure was read from
    lookupTable,    \* what lookupTableFromPolicy handed back
    history,        \* the operations applied to the exposure, in order
    xy0,            \* origin of the exposure's masked image in its parent
    metadata,       \* the exposure's metadata: keyword -> value
    amps,           \* the amplifiers of a detector, each with its own exposure
    returned        \* what the last call handed back, if anything

vars == <<dims, image, mask, variance, maskPlaneDict, overscanBBox, defectList,
          image0, mask0, variance0, last, calls,
          calib, calibXY0, gain, lookupTable, history, xy0, metadata, amps,
          returned>>

Counts(n) == 2 * n

(***************************************************************************)
(* Bounds of the model.                                                    *)
(***************************************************************************)
DataN == 2          \* side of the square data region (10 in the tests)
PlaneW == 3         \* plane of the defect and saturation scenarios
PlaneH == 2
MaxDefects == 2     \* longest defect catalogue
MaxCalls == 2       \* calls per behaviour

(***************************************************************************)
(* Constants of the program and its tests.                                 *)
(***************************************************************************)
OverscanN == 3                      \* width of the overscan strip
RampOffsets == <<-1, 0, 1>>         \* -0.5, 0.0, 0.5
DataValues == {Counts(10), Counts(12)}
OverscanValues == {Counts(2), Counts(3)}
DefectValue == Counts(100)          \* bad.set(100)
SetVal == Counts(10)                \* self.setVal
VarianceValue == Counts(1)          \* maskedImage.set(10, 0x0, 1)

SupportedFitTypes ==
    {"MEAN", "MEDIAN", "MEDIAN_PER_ROW", "POLY", "CHEB", "LEG",
     "NATURAL_SPLINE", "CUBIC_SPLINE", "AKIMA_SPLINE"}
FitTypes == SupportedFitTypes \cup {"BOGUS"}

(***************************************************************************)
(* Geometry.                                                               *)
(***************************************************************************)
Box2I(x0, y0, x1, y1) == [x0 |-> x0, y0 |-> y0, x1 |-> x1, y1 |-> y1]
NoBox == Box2I(0, 0, -1, -1)
InBox(p, b) == b.x0 <= p[1] /\ p[1] <= b.x1 /\ b.y0 <= p[2] /\ p[2] <= b.y1
Pixels(d) == (0 .. d[1] - 1) \X (0 .. d[2] - 1)
BoxWidth(b) == b.x1 - b.x0 + 1
BoxHeight(b) == b.y1 - b.y0 + 1
BoxesIn(d) ==
    {Box2I(x0, y0, x1, y1) : x0 \in 0 .. d[1] - 1, y0 \in 0 .. d[2] - 1,
                             x1 \in 0 .. d[1] - 1, y1 \in 0 .. d[2] - 1}
ValidBoxesIn(d) == {b \in BoxesIn(d) : b.x0 <= b.x1 /\ b.y0 <= b.y1}

\* afwImage.ImageF(image, bbox, False): the pixels of a sub-image, row by row
SubImage(img, b) ==
    [k \in 1 .. BoxWidth(b) * BoxHeight(b) |->
        img[<<b.x0 + ((k - 1) % BoxWidth(b)), b.y0 + ((k - 1) \div BoxWidth(b))>>]]

\* the whole plane as a sub-image
WholeImage(img, d) == SubImage(img, Box2I(0, 0, d[1] - 1, d[2] - 1))

(***************************************************************************)
(* Mask planes.                                                            *)
(***************************************************************************)
RECURSIVE Pow2(_)
Pow2(n) == IF n = 0 THEN 1 ELSE 2 * Pow2(n - 1)

DefaultMaskPlaneDict == [BAD |-> 0, SAT |-> 1, INTRP |-> 2, SUSPECT |-> 7]
PlaneNames == {"BAD", "SAT", "INTRP", "SUSPECT"}

getPlaneBitMask(dict, name) == Pow2(dict[name])
HasBits(m, bits) == (m \div bits) % 2 = 1
OrBits(m, bits) == IF HasBits(m, bits) THEN m ELSE m + bits

(***************************************************************************)
(* Statistics (afwMath.makeStatistics).                                    *)
(***************************************************************************)
RECURSIVE SumSeq(_)
SumSeq(s) == IF s = <<>> THEN 0 ELSE Head(s) + SumSeq(Tail(s))

Mean(vals) == SumSeq(vals) \div Len(vals)

\* the k-th smallest value of a sequence
Kth(vals, k) ==
    CHOOSE v \in {vals[i] : i \in 1 .. Len(vals)} :
        /\ Cardinality({i \in 1 .. Len(vals) : vals[i] < v}) <= k - 1
        /\ Cardinality({i \in 1 .. Len(vals) : vals[i] <= v}) >= k

Median(vals) ==
    LET n == Len(vals)
    IN  IF n % 2 = 1 THEN Kth(vals, (n + 1) \div 2)
        ELSE (Kth(vals, n \div 2) + Kth(vals, n \div 2 + 1)) \div 2

(***************************************************************************)
(* The record of a call.                                                   *)
(***************************************************************************)
None == <<>>
Some(v) == <<v>>

NoCall ==
    [op |-> "none", status |-> "none", error |-> "",
     fittype |-> "", saturation |-> 0, doMask |-> FALSE, maskName |-> "",
     fwhm |-> None, interpolate |-> FALSE, fallbackValue |-> None,
     fallback |-> None, growFootprints |-> 0,
     expscaling |-> None, darkscaling |-> None,
     scalingtype |-> "", scaling |-> None, tablePolicy |-> None,
     datasec |-> None, ampBBox |-> None, trimsec |-> None, metadata |-> None]

MaskedImage(img, msk, var) == [image |-> img, mask |-> msk, variance |-> var]

\* an exposure at the origin without metadata, no detector, nothing returned
NoMetadata == [k \in {} |-> ""]
NoGeometry ==
    /\ xy0 = <<0, 0>>
    /\ metadata = NoMetadata
    /\ amps = <<>>
    /\ returned = None

\* no calibration frame, no lookup table, nothing applied yet
NoFrame == MaskedImage(<<>>, <<>>, <<>>)
NoCalibration ==
    /\ calib = NoFrame
    /\ calibXY0 = <<0, 0>>
    /\ gain = 1
    /\ lookupTable = None
    /\ history = <<>>

(***************************************************************************)
(* overscanCorrection(exposure, overscanBBox, fittype)                     *)
(***************************************************************************)
\* mi -= offset: MaskedImage minus a scalar touches the image plane only
MaskedImageMinusScalar(mi, offset) ==
    MaskedImage([p \in DOMAIN mi.image |-> mi.image[p] - offset],
                mi.mask, mi.variance)

Raised(err, mi) == [status |-> "error", error |-> err, mi |-> mi]
Returned(mi) == [status |-> "ok", error |-> "", mi |-> mi]

\* a scalar subtraction that reaches the variance plane as well
OverscanCorrection_AllPlanes(mi, bbox, fittype) ==
    LET overscanData == SubImage(mi.image, bbox)
        sub(offset) ==
            MaskedImage([p \in DOMAIN mi.image |-> mi.image[p] - offset],
                        mi.mask,
                        [p \in DOMAIN mi.variance |-> mi.variance[p] - offset])
    IN  IF fittype = "MEAN" THEN Returned(sub(Mean(overscanData)))
        ELSE IF fittype = "MEDIAN" THEN Returned(sub(Median(overscanData)))
        ELSE IF fittype = "POLY" THEN Raised("NotImplemented", mi)
        ELSE Raised("InvalidOverscanType", mi)

\* the offset subtracted from the data region only, the overscan left as read
OverscanCorrection_DataOnly(mi, bbox, fittype) ==
    LET overscanData == SubImage(mi.image, bbox)
        sub(offset) ==
            MaskedImage([p \in DOMAIN mi.image |->
                            IF InBox(p, bbox) THEN mi.image[p]
                            ELSE mi.image[p] - offset],
                        mi.mask, mi.variance)
    IN  IF fittype = "MEAN" THEN Returned(sub(Mean(overscanData)))
        ELSE IF fittype = "MEDIAN" THEN Returned(sub(Median(overscanData)))
        ELSE IF fittype = "POLY" THEN Raised("NotImplemented", mi)
        ELSE Raised("InvalidOverscanType", mi)

\* an unrecognised fit type falling through with the initial offset of 0
OverscanCorrection_NoElse(mi, bbox, fittype) ==
    LET overscanData == SubImage(mi.image, bbox)
    IN  IF fittype = "MEAN"
        THEN Returned(MaskedImageMinusScalar(mi, Mean(overscanData)))
        ELSE IF fittype = "MEDIAN"
        THEN Returned(MaskedImageMinusScalar(mi, Median(overscanData)))
        ELSE IF fittype = "POLY" THEN Raised("NotImplemented", mi)
        ELSE Returned(MaskedImageMinusScalar(mi, 0))

OverscanCorrection(mi, bbox, fittype) ==
    LET overscanData == SubImage(mi.image, bbox)
    IN  IF fittype = "MEAN"
        THEN Returned(MaskedImageMinusScalar(mi, Mean(overscanData)))
        ELSE IF fittype = "MEDIAN"
        THEN Returned(MaskedImageMinusScalar(mi, Median(overscanData)))
        ELSE IF fittype = "POLY" THEN Raised("NotImplemented", mi)
        ELSE Raised("InvalidOverscanType", mi)

\* the planes and the call record after a call that ended as r
Finish(r, call) ==
    /\ image' = r.mi.image
    /\ mask' = r.mi.mask
    /\ variance' = r.mi.variance
    /\ image0' = image
    /\ mask0' = mask
    /\ variance0' = variance
    /\ last' = [call EXCEPT !.status = r.status, !.error = r.error]
    /\ calls' = calls + 1
    /\ history' = IF r.status = "ok" THEN Append(history, call.op) ELSE history

overscanCorrection ==
    /\ calls < MaxCalls
    /\ \E fittype \in FitTypes :
        Finish(OverscanCorrection(MaskedImage(image, mask, variance),
                                  overscanBBox, fittype),
               [NoCall EXCEPT !.op = "overscanCorrection", !.fittype = fittype])
    /\ UNCHANGED <<dims, maskPlaneDict, overscanBBox, defectList>>
    /\ UNCHANGED <<xy0, metadata, amps, returned>>
    /\ UNCHANGED <<calib, calibXY0, gain, lookupTable>>

(***************************************************************************)
(* The overscan scenario of test_overscanCorrection.py: a DataN x DataN    *)
(* data region with an overscan strip of OverscanN columns on its right    *)
(* (X) or OverscanN rows above it (Y).                                     *)
(***************************************************************************)
OverscanDims(orient) ==
    IF orient = "X" THEN <<DataN + OverscanN, DataN>>
    ELSE <<DataN, DataN + OverscanN>>

OverscanBox(orient) ==
    IF orient = "X" THEN Box2I(DataN, 0, DataN + OverscanN - 1, DataN - 1)
    ELSE Box2I(0, DataN, DataN - 1, DataN + OverscanN - 1)

\* maskedImage.set(V, ...); overscan.set(O, ...)
UniformImage(orient, v, o) ==
    [p \in Pixels(OverscanDims(orient)) |->
        IF InBox(p, OverscanBox(orient)) THEN o ELSE v]

\* overscan.image[j, i] = 2+i+off (X), overscan.image[i, j] = 2+i+off (Y)
RampImage(orient) ==
    [p \in Pixels(OverscanDims(orient)) |->
        IF ~InBox(p, OverscanBox(orient)) THEN Counts(10)
        ELSE IF orient = "X"
             THEN Counts(2 + p[2]) + RampOffsets[p[1] - DataN + 1]
             ELSE Counts(2 + p[1]) + RampOffsets[p[2] - DataN + 1]]

OverscanImages(orient) ==
    {UniformImage(orient, v, o) : v \in DataValues, o \in OverscanValues}
        \cup {RampImage(orient)}

InitOverscan ==
    \E orient \in {"X", "Y"} :
        /\ dims = OverscanDims(orient)
        /\ overscanBBox = OverscanBox(orient)
        /\ image \in OverscanImages(orient)
        /\ \E m \in {0, getPlaneBitMask(DefaultMaskPlaneDict, "SUSPECT")} :
              mask = [p \in Pixels(OverscanDims(orient)) |-> m]
        /\ variance = [p \in Pixels(OverscanDims(orient)) |-> VarianceValue]
        /\ maskPlaneDict = DefaultMaskPlaneDict
        /\ defectList = <<>>
        /\ image0 = image
        /\ mask0 = mask
        /\ variance0 = variance
        /\ last = NoCall
        /\ calls = 0
        /\ NoGeometry
        /\ NoCalibration

NextOverscan == overscanCorrection

SpecOverscan == InitOverscan /\ [][NextOverscan]_vars

(***************************************************************************)
(* Claims about overscanCorrection.                                        *)
(***************************************************************************)
IsData(p) == ~InBox(p, overscanBBox)
IsOverscan(p) == InBox(p, overscanBBox)

\* the strip runs along the rows when it sits to the right of the data
PerRow == overscanBBox.x0 > 0

\* index of the row (or column) a pixel is fitted in
Line(p) == IF PerRow THEN p[2] ELSE p[1]

\* position of an overscan pixel across the strip, from 1
Across(p) == IF PerRow THEN p[1] - overscanBBox.x0 + 1 ELSE p[2] - overscanBBox.y0 + 1

\* the overscan pixels of the line of p
LineOverscan(img, p) ==
    IF PerRow
    THEN SubImage(img, Box2I(overscanBBox.x0, p[2], overscanBBox.x1, p[2]))
    ELSE SubImage(img, Box2I(p[1], overscanBBox.y0, p[1], overscanBBox.y1))

\* data uniformly v, overscan uniformly o
UniformScene(img, v, o) ==
    \A p \in Pixels(dims) : img[p] = IF IsOverscan(p) THEN o ELSE v

\* data uniformly 10, overscan line i holding 2+i-0.5, 2+i, 2+i+0.5
RampScene(img) ==
    \A p \in Pixels(dims) :
        img[p] = IF IsOverscan(p)
                 THEN Counts(2 + Line(p)) + RampOffsets[Across(p)]
                 ELSE Counts(10)

\* data of line j at 8-j, the overscan of every line at -0.5, 0, 0.5
RampCorrected(img) ==
    \A p \in Pixels(dims) :
        img[p] = IF IsOverscan(p) THEN RampOffsets[Across(p)]
                 ELSE Counts(8 - Line(p))

DataCorner == <<0, 0>>
OverscanCorner == <<overscanBBox.x0, overscanBBox.y0>>

OverscanCalled(types) ==
    last.op = "overscanCorrection" /\ last.fittype \in types

\* C1: on uniform data V with uniform overscan O, MEAN and MEDIAN overscan
\* correction end normally with every data pixel at V-O and every overscan
\* pixel at 0, in both orientations.
C1_UniformMeanMedian ==
    (/\ OverscanCalled({"MEAN", "MEDIAN"})
     /\ UniformScene(image0, image0[DataCorner], image0[OverscanCorner]))
    => /\ last.status = "ok"
       /\ UniformScene(image, image0[DataCorner] - image0[OverscanCorner], 0)

\* C1 happens: data 10 with overscan 2 was corrected to 8 by MEDIAN, strip on the right
C1_Witness ==
    /\ OverscanCalled({"MEDIAN"})
    /\ PerRow
    /\ UniformScene(image0, Counts(10), Counts(2))
    /\ UniformScene(image, Counts(8), 0)

\* C2 as claimed: MEDIAN_PER_ROW is accepted and subtracts from every pixel
\* the median of the overscan pixels of its row (column), so that uniform
\* data 10 with overscan 2 ends at 8 and 0.
C2_MedianPerRowAccepted ==
    OverscanCalled({"MEDIAN_PER_ROW"})
    => /\ last.status = "ok"
       /\ \A p \in Pixels(dims) :
             image[p] = image0[p] - Median(LineOverscan(image0, p))

\* C3 as claimed: POLY, CHEB and LEG of order 1 on the ramp end normally with
\* line j of the data at 8-j and the overscan at -0.5, 0, 0.5.
C3_PolyFitsRamp ==
    (OverscanCalled({"POLY", "CHEB", "LEG"}) /\ RampScene(image0))
    => (last.status = "ok" /\ RampCorrected(image))

\* C4 as claimed: the three spline fits on the ramp end normally, and their
\* model is the mean of the overscan of each line, so data 10 of line j
\* becomes 8-j.
C4_SplineFitsRamp ==
    (/\ OverscanCalled({"NATURAL_SPLINE", "CUBIC_SPLINE", "AKIMA_SPLINE"})
     /\ RampScene(image0))
    => /\ last.status = "ok"
       /\ \A p \in Pixels(dims) :
             IsData(p) => image[p] = image0[p] - Mean(LineOverscan(image0, p))

\* C5: a fit type outside the supported set ends in an error, with the image,
\* mask and variance planes as they were before the call.
C5_UnknownFitTypeFails ==
    (last.op = "overscanCorrection" /\ last.fittype \notin SupportedFitTypes)
    => /\ last.status = "error"
       /\ last.error = "InvalidOverscanType"
       /\ image = image0
       /\ mask = mask0
       /\ variance = variance0

\* C5 happens: an unknown fit type was rejected on an exposure with mask bits set
C5_Witness ==
    /\ last.op = "overscanCorrection"
    /\ last.fittype = "BOGUS"
    /\ last.status = "error"
    /\ \E p \in Pixels(dims) : mask[p] # 0

\* C6: a successful overscanCorrection leaves every mask pixel and every
\* variance pixel as it was before the call.
C6_OnlyImagePlaneChanges ==
    (last.op = "overscanCorrection" /\ last.status = "ok")
    => (mask = mask0 /\ variance = variance0)

\* C6 happens: a successful call moved the image under a non-empty mask
C6_Witness ==
    /\ last.op = "overscanCorrection"
    /\ last.status = "ok"
    /\ image # image0
    /\ \E p \in Pixels(dims) : mask[p] # 0 /\ variance[p] # 0

(***************************************************************************)
(* saturationDetection(exposure, saturation, doMask, maskName)             *)
(***************************************************************************)
\* a threshold that a pixel has to exceed
FootprintPixels_Above(img, threshold) ==
    {p \in DOMAIN img : img[p] > threshold}

\* makeFootprintSet(mi, Threshold(saturation)): the pixels of all footprints,
\* those at or above the threshold
FootprintPixels(img, threshold) ==
    {p \in DOMAIN img : img[p] >= threshold}

\* setMaskFromFootprint over a set of pixels written in place of the old flags
setMaskFromFootprint_Assign(msk, pixels, bitmask) ==
    [p \in DOMAIN msk |-> IF p \in pixels THEN bitmask ELSE msk[p]]

\* afwDetection.setMaskFromFootprint(mask, footprint, bitmask): OR the bits in
setMaskFromFootprint(msk, pixels, bitmask) ==
    [p \in DOMAIN msk |-> IF p \in pixels THEN OrBits(msk[p], bitmask) ELSE msk[p]]

SaturationDetection(mi, dict, saturation, doMask, maskName) ==
    LET fpPixels == FootprintPixels(mi.image, saturation)
    IN  IF doMask
        THEN Returned(MaskedImage(mi.image,
                 setMaskFromFootprint(mi.mask, fpPixels,
                                      getPlaneBitMask(dict, maskName)),
                 mi.variance))
        ELSE Returned(mi)

SaturationLevels == {Counts(10), Counts(50), Counts(100), Counts(150)}
MaskNames == {"SAT", "BAD"}

saturationDetection ==
    /\ calls < MaxCalls
    /\ \E saturation \in SaturationLevels, doMask \in BOOLEAN, maskName \in MaskNames :
        Finish(SaturationDetection(MaskedImage(image, mask, variance),
                                   maskPlaneDict, saturation, doMask, maskName),
               [NoCall EXCEPT !.op = "saturationDetection",
                              !.saturation = saturation,
                              !.doMask = doMask, !.maskName = maskName])
    /\ UNCHANGED <<dims, maskPlaneDict, overscanBBox, defectList>>
    /\ UNCHANGED <<xy0, metadata, amps, returned>>
    /\ UNCHANGED <<calib, calibXY0, gain, lookupTable>>

(***************************************************************************)
(* The scenario of test_defect.py: a plane of value SetVal with rectangular*)
(* regions set to DefectValue.                                             *)
(***************************************************************************)
PlaneDims == <<PlaneW, PlaneH>>

InAnyBox(p, boxes) == \E i \in 1 .. Len(boxes) : InBox(p, boxes[i])

\* ccdImage.set(setVal, ...); bad.set(100) inside every box
CarvedImage(boxes) ==
    [p \in Pixels(PlaneDims) |->
        IF InAnyBox(p, boxes) THEN DefectValue ELSE SetVal]

InitialMasks(d) ==
    {[p \in Pixels(d) |-> m] :
        m \in {0, getPlaneBitMask(DefaultMaskPlaneDict, "SUSPECT")}}

InitSaturation ==
    /\ dims = PlaneDims
    /\ overscanBBox = NoBox
    /\ \E b \in ValidBoxesIn(PlaneDims) :
          image \in {CarvedImage(<<>>), CarvedImage(<<b>>)}
    /\ mask \in InitialMasks(PlaneDims)
    /\ variance = [p \in Pixels(PlaneDims) |-> VarianceValue]
    /\ maskPlaneDict = DefaultMaskPlaneDict
    /\ defectList = <<>>
    /\ image0 = image
    /\ mask0 = mask
    /\ variance0 = variance
    /\ last = NoCall
    /\ calls = 0
    /\ NoGeometry
    /\ NoCalibration

NextSaturation == saturationDetection

SpecSaturation == InitSaturation /\ [][NextSaturation]_vars

NumSigmaClip == 3
NumIter == 3

Square(x) == x * x

\* |v - mean| > NumSigmaClip * stdev with the unbiased stdev, in integers:
\* (n v - s)^2 (n - 1) > NumSigmaClip^2 * sum_i (n v_i - s)^2
RECURSIVE SigmaClip(_, _)
SigmaClip(vals, iter) ==
    IF iter = 0 \/ Len(vals) <= 1 THEN vals
    ELSE LET n == Len(vals)
             s == SumSeq(vals)
             q == SumSeq([k \in 1 .. n |-> Square(n * vals[k] - s)])
             Kept(v) == Square(n * v - s) * (n - 1) <= Square(NumSigmaClip) * q
             kept == SelectSeq(vals, Kept)
         IN  IF kept = vals THEN vals ELSE SigmaClip(kept, iter - 1)

\* afwMath.makeStatistics(image, afwMath.MEANCLIP).getValue()
MeanClip(vals) == Mean(SigmaClip(vals, NumIter))

(***************************************************************************)
(* Defect interpolation.  fwhm is in units of one half.                    *)
(***************************************************************************)
\* createPsf(fwhm): ksize = 4*int(fwhm) + 1
KernelSize(fwhm) == 4 * (fwhm \div 2) + 1

Abs(x) == IF x < 0 THEN -x ELSE x

\* the valid (non-defect) pixels of the plane within the kernel support of p
ValidNeighbours(d, boxes, ksize, p) ==
    {q \in Pixels(d) :
        /\ Abs(q[1] - p[1]) <= (ksize - 1) \div 2
        /\ Abs(q[2] - p[2]) <= (ksize - 1) \div 2
        /\ ~InAnyBox(q, boxes)}

SetMin(S) == CHOOSE v \in S : \A u \in S : v <= u

\* algorithms.interpolateOverDefects(mi, psf, defectList, fallbackValue): every
\* defect pixel becomes a kernel-weighted combination of its valid (non-defect)
\* neighbours, or the fallback when it has none.  The weights are normalised,
\* so neighbours that agree give their common value; the kernel profile is not
\* modelled, and neighbours that differ are represented by the least of them.
InterpolateOverDefects(img, d, boxes, ksize, fallback) ==
    [p \in Pixels(d) |->
        IF ~InAnyBox(p, boxes) THEN img[p]
        ELSE LET near == {img[q] : q \in ValidNeighbours(d, boxes, ksize, p)}
             IN  IF near = {} THEN fallback ELSE SetMin(near)]

Interpolated(mi, fallback) ==
    [status |-> "ok", error |-> "", mi |-> mi, fallback |-> Some(fallback)]
NotInterpolated(r) ==
    [status |-> r.status, error |-> r.error, mi |-> r.mi, fallback |-> None]

\* interpolateDefectList(exposure, defectList, fwhm, fallbackValue=None)
InterpolateDefectList(mi, d, boxes, fwhm, fallbackValue) ==
    LET fallback == IF fallbackValue = None
                    THEN MeanClip(WholeImage(mi.image, d))
                    ELSE fallbackValue[1]
    IN  Interpolated(
            MaskedImage(InterpolateOverDefects(mi.image, d, boxes,
                                               KernelSize(fwhm), fallback),
                        mi.mask, mi.variance),
            fallback)

\* for defect in defectList: setMaskFromFootprint(mask, Footprint(bbox), bitmask)
RECURSIVE MaskDefects(_, _, _)
MaskDefects(msk, boxes, bitmask) ==
    IF boxes = <<>> THEN msk
    ELSE MaskDefects(
             setMaskFromFootprint(msk, {p \in DOMAIN msk : InBox(p, Head(boxes))},
                                  bitmask),
             Tail(boxes), bitmask)

\* a call that looks at fwhm before it writes the mask
MaskBadPixelsDef_AssertFirst(mi, d, dict, boxes, fwhm, interpolate, maskName) ==
    LET bitmask == getPlaneBitMask(dict, maskName)
        masked == MaskedImage(mi.image, MaskDefects(mi.mask, boxes, bitmask),
                              mi.variance)
    IN  IF ~interpolate THEN NotInterpolated(Returned(masked))
        ELSE IF fwhm = None \/ ~(fwhm[1] > 0)
        THEN NotInterpolated(Raised("AssertionError", mi))
        ELSE InterpolateDefectList(masked, d, boxes, fwhm[1], None)

\* maskBadPixelsDef(exposure, defectList, fwhm=None, interpolate=True, maskName='BAD')
MaskBadPixelsDef(mi, d, dict, boxes, fwhm, interpolate, maskName) ==
    LET bitmask == getPlaneBitMask(dict, maskName)
        masked == MaskedImage(mi.image, MaskDefects(mi.mask, boxes, bitmask),
                              mi.variance)
    IN  IF ~interpolate THEN NotInterpolated(Returned(masked))
        ELSE IF fwhm = None \/ ~(fwhm[1] > 0)
        THEN NotInterpolated(Raised("AssertionError", masked))
        ELSE InterpolateDefectList(masked, d, boxes, fwhm[1], None)

Fwhms == {1, 2}                     \* 0.5 and 1.0
OptionalFwhms == {None, Some(0), Some(1), Some(2)}
\* interpolate and fwhm as callers pass them: fwhm is left out when not interpolating
MaskingModes ==
    {<<FALSE, None>>} \cup {<<TRUE, fwhm>> : fwhm \in OptionalFwhms}
FallbackValues == {None, Some(Counts(7))}

interpolateDefectList ==
    /\ calls = 0
    /\ \E fwhm \in Fwhms, fallbackValue \in FallbackValues :
        \E r \in {InterpolateDefectList(MaskedImage(image, mask, variance), dims,
                                       defectList, fwhm, fallbackValue)} :
            Finish(r, [NoCall EXCEPT !.op = "interpolateDefectList",
                                     !.fwhm = Some(fwhm),
                                     !.interpolate = TRUE,
                                     !.fallbackValue = fallbackValue,
                                     !.fallback = r.fallback])
    /\ UNCHANGED <<dims, maskPlaneDict, overscanBBox, defectList>>
    /\ UNCHANGED <<xy0, metadata, amps, returned>>
    /\ UNCHANGED <<calib, calibXY0, gain, lookupTable>>

maskBadPixelsDef ==
    /\ calls = 0
    /\ \E mode \in MaskingModes, maskName \in MaskNames :
        \E r \in {MaskBadPixelsDef(MaskedImage(image, mask, variance), dims,
                                   maskPlaneDict, defectList, mode[2], mode[1],
                                   maskName)} :
            Finish(r, [NoCall EXCEPT !.op = "maskBadPixelsDef",
                                     !.fwhm = mode[2],
                                     !.interpolate = mode[1],
                                     !.maskName = maskName,
                                     !.fallback = r.fallback])
    /\ UNCHANGED <<dims, maskPlaneDict, overscanBBox, defectList>>
    /\ UNCHANGED <<xy0, metadata, amps, returned>>
    /\ UNCHANGED <<calib, calibXY0, gain, lookupTable>>

\* two boxes with no pixel in common
Disjoint(a, b) == a.x1 < b.x0 \/ b.x1 < a.x0 \/ a.y1 < b.y0 \/ b.y1 < a.y0

\* the order of a catalogue: by x0, then by y0
Before(a, b) == a.x0 < b.x0 \/ (a.x0 = b.x0 /\ a.y0 < b.y0)

\* the defect catalogues: up to MaxDefects disjoint boxes of the plane, in order
RECURSIVE Catalogues(_, _)
Catalogues(S, n) ==
    IF n = 0 THEN {<<>>}
    ELSE LET shorter == Catalogues(S, n - 1)
         IN  shorter \cup
             {Append(q, b) : <<q, b>> \in
                 {qb \in shorter \X S :
                     /\ Len(qb[1]) = n - 1
                     /\ \A i \in 1 .. Len(qb[1]) : Disjoint(qb[1][i], qb[2])
                     /\ qb[1] # <<>> => Before(qb[1][Len(qb[1])], qb[2])}}

DefectLists == Catalogues(ValidBoxesIn(PlaneDims), MaxDefects)

InitDefect ==
    /\ dims = PlaneDims
    /\ overscanBBox = NoBox
    /\ defectList \in DefectLists
    /\ image \in {CarvedImage(<<>>), CarvedImage(defectList)}
    /\ mask \in InitialMasks(PlaneDims)
    /\ variance = [p \in Pixels(PlaneDims) |-> VarianceValue]
    /\ maskPlaneDict = DefaultMaskPlaneDict
    /\ image0 = image
    /\ mask0 = mask
    /\ variance0 = variance
    /\ last = NoCall
    /\ calls = 0
    /\ NoGeometry
    /\ NoCalibration

NextDefect == interpolateDefectList \/ maskBadPixelsDef

SpecDefect == InitDefect /\ [][NextDefect]_vars

(***************************************************************************)
(* Claims about defect masking and interpolation.                          *)
(***************************************************************************)
IsDefect(p) == InAnyBox(p, defectList)

\* the values of the pixels outside every defect box, row by row
GoodValues(img) ==
    LET all == [k \in 1 .. dims[1] * dims[2] |->
                   <<(k - 1) % dims[1], (k - 1) \div dims[1]>>]
        Good(q) == ~IsDefect(q)
        good == SelectSeq(all, Good)
    IN  [k \in 1 .. Len(good) |-> img[good[k]]]

\* the call interpolated, with no fallback value supplied by its caller
InterpolatedWithoutFallback ==
    /\ last.op \in {"interpolateDefectList", "maskBadPixelsDef"}
    /\ last.status = "ok"
    /\ last.interpolate
    /\ last.fallbackValue = None

Unconstrained(p) ==
    IsDefect(p) /\ ValidNeighbours(dims, defectList, KernelSize(last.fwhm[1]), p) = {}

\* C8 as claimed: on a plane that holds one value V outside its defect boxes,
\* interpolateDefectList ends normally with every pixel of every defect box at V.
C8_DefectsRestored ==
    (/\ last.op = "interpolateDefectList"
     /\ last.fallbackValue = None
     /\ \E p \in Pixels(dims) : ~IsDefect(p))
    => \A v \in {image0[p] : p \in {q \in Pixels(dims) : ~IsDefect(q)}} :
          (\A p \in Pixels(dims) : ~IsDefect(p) => image0[p] = v)
          => /\ last.status = "ok"
             /\ \A p \in Pixels(dims) : IsDefect(p) => image[p] = v

\* C9 as claimed: with no fallbackValue supplied, the fallback is the clipped
\* mean of the image over the pixels that are not defects, computed once and
\* written to every unconstrained pixel.
C9_FallbackOverGoodPixels ==
    (InterpolatedWithoutFallback /\ \E p \in Pixels(dims) : ~IsDefect(p))
    => /\ last.fallback = Some(MeanClip(GoodValues(image0)))
       /\ \A p \in Pixels(dims) : Unconstrained(p) => image[p] = last.fallback[1]

\* C10: maskBadPixelsDef with maskName M sets bit M on every pixel inside every
\* defect box, keeps every bit those pixels had, and leaves the mask of every
\* pixel outside all defect boxes as it was.
C10_DefectBoxesMasked ==
    last.op = "maskBadPixelsDef"
    => \A p \in Pixels(dims) :
          IF IsDefect(p)
          THEN /\ HasBits(mask[p], getPlaneBitMask(maskPlaneDict, last.maskName))
               /\ \A n \in PlaneNames :
                     HasBits(mask0[p], getPlaneBitMask(maskPlaneDict, n))
                     => HasBits(mask[p], getPlaneBitMask(maskPlaneDict, n))
          ELSE mask[p] = mask0[p]

\* C10 happens: two defects were masked BAD over pixels that carried SUSPECT,
\* beside a pixel outside both
C10_Witness ==
    /\ last.op = "maskBadPixelsDef"
    /\ last.maskName = "BAD"
    /\ Len(defectList) = 2
    /\ \E p, q \in Pixels(dims) :
          /\ InBox(p, defectList[2])
          /\ HasBits(mask0[p], getPlaneBitMask(maskPlaneDict, "SUSPECT"))
          /\ ~HasBits(mask0[p], getPlaneBitMask(maskPlaneDict, "BAD"))
          /\ HasBits(mask[p], getPlaneBitMask(maskPlaneDict, "SUSPECT"))
          /\ HasBits(mask[p], getPlaneBitMask(maskPlaneDict, "BAD"))
          /\ ~IsDefect(q)
          /\ mask[q] = mask0[q]

(***************************************************************************)
(* defectListFromMask(exposure, growFootprints = 1, maskName = 'SAT')      *)
(***************************************************************************)
\* first pixel of a set in scan order: bottom row first, left to right
ScanFirst(S) ==
    CHOOSE p \in S : \A q \in S : p[2] < q[2] \/ (p[2] = q[2] /\ p[1] <= q[1])

\* pixels of one footprint touch along an axis or across a corner
Touching(p, q) == Abs(p[1] - q[1]) <= 1 /\ Abs(p[2] - q[2]) <= 1

\* the pixels of S connected to the pixels of C
RECURSIVE Connected(_, _)
Connected(S, C) ==
    LET more == {q \in S \ C : \E p \in C : Touching(p, q)}
    IN  IF more = {} THEN C ELSE Connected(S, C \cup more)

\* makeFootprintSet(maskimg, Threshold(0.5)).getFootprints(): the connected
\* regions of the set pixels, in scan order of their first pixel
RECURSIVE Footprints(_)
Footprints(S) ==
    IF S = {} THEN <<>>
    ELSE LET fp == Connected(S, {ScanFirst(S)})
         IN  <<fp>> \o Footprints(S \ fp)

\* a footprint that is never grown
growFootprint_Never(fp, ngrow, d) == fp

\* afwDetection.growFootprint(fp, ngrow, False): the pixels of the plane within
\* ngrow steps along the axes of a pixel of the footprint
growFootprint(fp, ngrow, d) ==
    {p \in Pixels(d) : \E q \in fp : Abs(p[1] - q[1]) + Abs(p[2] - q[2]) <= ngrow}

\* afwDetection.footprintToBBoxList: rectangles that cover the footprint and
\* nothing else; the run that starts at the first pixel, extended upwards over
\* the rows that hold the whole run, is cut off and the rest decomposed again
RECURSIVE footprintToBBoxList(_)
footprintToBBoxList(fp) ==
    IF fp = {} THEN <<>>
    ELSE LET p0 == ScanFirst(fp)
             x0 == p0[1]
             y0 == p0[2]
             InRun(x) == \A xx \in x0 .. x : <<xx, y0>> \in fp
             x1 == CHOOSE x \in {q[1] : q \in fp} :
                      x >= x0 /\ InRun(x) /\ <<x + 1, y0>> \notin fp
             Full(y) == \A yy \in y0 .. y : \A xx \in x0 .. x1 : <<xx, yy>> \in fp
             y1 == CHOOSE y \in {q[2] : q \in fp} :
                      y >= y0 /\ Full(y)
                      /\ \E xx \in x0 .. x1 : <<xx, y + 1>> \notin fp
             bbox == Box2I(x0, y0, x1, y1)
         IN  <<bbox>> \o footprintToBBoxList({q \in fp : ~InBox(q, bbox)})

\* satmask &= bitmask taken over every bit that is set
MaskedPixels_AnyBit(msk, bitmask) == {p \in DOMAIN msk : msk[p] # 0}

\* satmask = MaskU(mask, True); satmask &= bitmask: the pixels left non-zero
MaskedPixels(msk, bitmask) == {p \in DOMAIN msk : HasBits(msk[p], bitmask)}

RECURSIVE DefectsOfFootprints(_, _, _)
DefectsOfFootprints(fpList, growFootprints, d) ==
    IF fpList = <<>> THEN <<>>
    ELSE LET fp == Head(fpList)
             fpGrow == IF growFootprints > 0
                       THEN growFootprint(fp, growFootprints, d) ELSE fp
         IN  footprintToBBoxList(fpGrow)
                 \o DefectsOfFootprints(Tail(fpList), growFootprints, d)

\* a registration that hands out the next bit above those in use, to a name
\* that has a plane already as well
addMaskPlane_Reassign(dict, name) ==
    [n \in DOMAIN dict \cup {name} |->
        IF n = name
        THEN 1 + (CHOOSE b \in {dict[k] : k \in DOMAIN dict} :
                     \A k \in DOMAIN dict : dict[k] <= b)
        ELSE dict[n]]

\* mask.addMaskPlane('INTRP') when the registry has no such plane: the plane
\* takes the lowest free bit
addMaskPlane(dict, name) ==
    IF name \in DOMAIN dict THEN dict
    ELSE LET bit == CHOOSE b \in 0 .. Cardinality(DOMAIN dict) :
                        /\ \A n \in DOMAIN dict : dict[n] # b
                        /\ \A c \in 0 .. b - 1 : \E n \in DOMAIN dict : dict[n] = c
         IN  [n \in DOMAIN dict \cup {name} |->
                 IF n = name THEN bit ELSE dict[n]]

DefectListFromMask(mi, d, dict, growFootprints, maskName) ==
    LET fpList == Footprints(MaskedPixels(mi.mask, getPlaneBitMask(dict, maskName)))
    IN  [status |-> "ok", error |-> "", mi |-> mi,
         satDefectList |-> DefectsOfFootprints(fpList, growFootprints, d),
         dict |-> addMaskPlane(dict, "INTRP")]

GrowRadii == {0, 1}
QueriedPlanes == {"BAD", "SUSPECT"}

defectListFromMask ==
    /\ calls < MaxCalls
    /\ \E growFootprints \in GrowRadii, maskName \in QueriedPlanes :
        \E r \in {DefectListFromMask(MaskedImage(image, mask, variance), dims,
                                     maskPlaneDict, growFootprints, maskName)} :
            /\ Finish(r, [NoCall EXCEPT !.op = "defectListFromMask",
                                        !.growFootprints = growFootprints,
                                        !.maskName = maskName])
            /\ defectList' = r.satDefectList
            /\ maskPlaneDict' = r.dict
    /\ UNCHANGED <<dims, overscanBBox, calib, calibXY0, gain, lookupTable>>
    /\ UNCHANGED <<xy0, metadata, amps, returned>>

(***************************************************************************)
(* The scenario of testDefectsFromMaskedImage: an empty masked image on    *)
(* which single mask pixels are set to the BAD or the SUSPECT bit.         *)
(***************************************************************************)
MaxMarks == 2       \* most mask pixels set

MarkedMasks(d, dict) ==
    {[p \in Pixels(d) |-> IF p \in DOMAIN m THEN getPlaneBitMask(dict, m[p]) ELSE 0] :
        m \in UNION {[S -> QueriedPlanes] :
                        S \in {T \in SUBSET Pixels(d) : Cardinality(T) <= MaxMarks}}}

\* a registry that has no INTRP plane yet
BareMaskPlaneDict == [BAD |-> 0, SAT |-> 1, SUSPECT |-> 7]

InitMask ==
    /\ dims = PlaneDims
    /\ overscanBBox = NoBox
    /\ image = [p \in Pixels(PlaneDims) |-> 0]
    /\ variance = [p \in Pixels(PlaneDims) |-> 0]
    /\ maskPlaneDict \in {DefaultMaskPlaneDict, BareMaskPlaneDict}
    /\ mask \in MarkedMasks(PlaneDims, maskPlaneDict)
    /\ defectList = <<>>
    /\ image0 = image
    /\ mask0 = mask
    /\ variance0 = variance
    /\ last = NoCall
    /\ calls = 0
    /\ NoGeometry
    /\ NoCalibration

NextMask == defectListFromMask

SpecMask == InitMask /\ [][NextMask]_vars

(***************************************************************************)
(* Claims about defectListFromMask.                                        *)
(***************************************************************************)
\* the pixels that carried the queried bit when the call was made
QueriedPixels ==
    {p \in Pixels(dims) :
        HasBits(mask0[p], getPlaneBitMask(maskPlaneDict, last.maskName))}

SetMax(S) == CHOOSE v \in S : \A w \in S : w <= v

\* a defect whose box starts at the lowest corner of the region
DefectAt(region) ==
    \E k \in 1 .. Len(defectList) :
        /\ defectList[k].x0 = SetMin({q[1] : q \in region})
        /\ defectList[k].y0 = SetMin({q[2] : q \in region})

\* C11 as claimed: extracting the defects of plane BAD gives exactly one
\* defect per disjoint region of BAD pixels, placed at that region: none for
\* no BAD pixel, one that starts at the pixel for a single BAD pixel, two for
\* two disjoint BAD pixels.
C11_OneDefectPerRegion ==
    (last.op = "defectListFromMask" /\ last.maskName = "BAD")
    => LET regions == Footprints(QueriedPixels)
       IN  /\ last.status = "ok"
           /\ Len(defectList) = Len(regions)
           /\ \A i \in 1 .. Len(regions) : DefectAt(regions[i])

\* C12: extraction for plane P depends on bit P alone: every pixel of every
\* defect lies within growFootprints steps of a pixel that carries bit P, no
\* pixel with bit P gives no defect, and the exposure's mask, image and
\* variance are after the call as they were before it.
C12_OnlyQueriedBit ==
    last.op = "defectListFromMask"
    => /\ last.status = "ok"
       /\ \A p \in Pixels(dims) :
             InAnyBox(p, defectList)
             => \E q \in QueriedPixels :
                   Abs(p[1] - q[1]) + Abs(p[2] - q[2]) <= last.growFootprints
       /\ (QueriedPixels = {} => defectList = <<>>)
       /\ mask = mask0
       /\ image = image0
       /\ variance = variance0

\* C12 happens: with one BAD and one SUSPECT pixel set, the BAD query without
\* growth gave the one defect of the BAD pixel
C12_Witness ==
    /\ last.op = "defectListFromMask"
    /\ last.maskName = "BAD"
    /\ last.growFootprints = 0
    /\ Cardinality(QueriedPixels) = 1
    /\ \E p \in Pixels(dims) :
          mask0[p] = getPlaneBitMask(maskPlaneDict, "SUSPECT")
    /\ Len(defectList) = 1
    /\ \A q \in QueriedPixels : InBox(q, defectList[1])

(***************************************************************************)
(* Calibration arithmetic.  A scalar is a quotient <<numerator,            *)
(* denominator>>, so that a mean or the quotient of two scalings is exact; *)
(* a pixel it is applied to is quantised to the half count below.          *)
(***************************************************************************)
\* a Python number: an int, or a float holding a whole value
PyInt(n) == [int |-> TRUE, v |-> n]
PyFloat(n) == [int |-> FALSE, v |-> n]

\* a / b the way a true division would have it
PyDiv_True(a, b) == <<a.v, b.v>>

\* a / b without "from __future__ import division": two ints give the floor
PyDiv(a, b) == IF a.int /\ b.int THEN <<a.v \div b.v, 1>> ELSE <<a.v, b.v>>

RECURSIVE Gcd(_, _)
Gcd(a, b) == IF b = 0 THEN a ELSE Gcd(b, a % b)

\* the quotient n / d in lowest terms
Ratio(n, d) == <<n \div Gcd(n, d), d \div Gcd(n, d)>>

\* bitwise OR of two sets of mask flags
RECURSIVE BitOr(_, _)
BitOr(a, b) ==
    IF a = 0 THEN b
    ELSE IF b = 0 THEN a
    ELSE (IF a % 2 = 1 \/ b % 2 = 1 THEN 1 ELSE 0) + 2 * BitOr(a \div 2, b \div 2)

\* the image operators take a right-hand side of the left-hand side's
\* dimensions, whatever its origin, and raise a length error for any other
SameDimensions(mi, rhs) == DOMAIN mi.image = DOMAIN rhs.image
MismatchedDimensions(mi) == Raised("LengthError", mi)

\* getDimensions() of a plane
DimsOf(img) ==
    <<Cardinality({p \in DOMAIN img : p[2] = 0}),
      Cardinality({p \in DOMAIN img : p[1] = 0})>>

\* MaskedImage -= MaskedImage: image - rhs.image, mask | rhs.mask,
\* variance + rhs.variance
MaskedImageMinus(mi, rhs) ==
    MaskedImage([p \in DOMAIN mi.image |-> mi.image[p] - rhs.image[p]],
                [p \in DOMAIN mi.mask |-> BitOr(mi.mask[p], rhs.mask[p])],
                [p \in DOMAIN mi.variance |-> mi.variance[p] + rhs.variance[p]])

\* mi.scaledMinus(c, rhs): image - c*rhs.image, mask | rhs.mask,
\* variance + c^2*rhs.variance
scaledMinus(mi, c, rhs) ==
    MaskedImage([p \in DOMAIN mi.image |->
                    mi.image[p] - ((c[1] * rhs.image[p]) \div c[2])],
                [p \in DOMAIN mi.mask |-> BitOr(mi.mask[p], rhs.mask[p])],
                [p \in DOMAIN mi.variance |->
                    mi.variance[p]
                        + ((c[1] * c[1] * rhs.variance[p]) \div (c[2] * c[2]))])

\* mi.scaledDivides(1/s, rhs) for the scalar s, itself in half counts:
\* image / (rhs.image / s), mask | rhs.mask, and the variance of a quotient,
\* (variance*rhs.image^2 + rhs.variance*image^2) * s^2 / rhs.image^4
scaledDivides(mi, s, rhs) ==
    MaskedImage([p \in DOMAIN mi.image |->
                    (mi.image[p] * s[1]) \div (s[2] * rhs.image[p])],
                [p \in DOMAIN mi.mask |-> BitOr(mi.mask[p], rhs.mask[p])],
                [p \in DOMAIN mi.variance |->
                    ((mi.variance[p] * Square(rhs.image[p])
                        + rhs.variance[p] * Square(mi.image[p])) * Square(s[1]))
                    \div (Square(s[2]) * Square(Square(rhs.image[p])))])

(***************************************************************************)
(* biasCorrection(exposure, bias)                                          *)
(***************************************************************************)
\* a subtraction that takes the bias variance off the science variance
BiasCorrection_LowersVariance(mi, bmi) ==
    IF ~SameDimensions(mi, bmi) THEN MismatchedDimensions(mi)
    ELSE Returned(MaskedImage([p \in DOMAIN mi.image |->
                                  mi.image[p] - bmi.image[p]],
                              mi.mask,
                              [p \in DOMAIN mi.variance |->
                                  mi.variance[p] - bmi.variance[p]]))

BiasCorrection(mi, bmi) ==
    IF ~SameDimensions(mi, bmi) THEN MismatchedDimensions(mi)
    ELSE Returned(MaskedImageMinus(mi, bmi))

biasCorrection ==
    /\ calls < MaxCalls
    /\ Finish(BiasCorrection(MaskedImage(image, mask, variance), calib),
              [NoCall EXCEPT !.op = "biasCorrection"])
    /\ UNCHANGED <<dims, maskPlaneDict, overscanBBox, defectList>>
    /\ UNCHANGED <<xy0, metadata, amps, returned>>
    /\ UNCHANGED <<calib, calibXY0, gain, lookupTable>>

(***************************************************************************)
(* darkCorrection(exposure, dark, expscaling, darkscaling)                 *)
(***************************************************************************)
DarkCorrection(mi, dmi, expscaling, darkscaling) ==
    LET scale == PyDiv(expscaling, darkscaling)
    IN  IF ~SameDimensions(mi, dmi) THEN MismatchedDimensions(mi)
        ELSE Returned(scaledMinus(mi, scale, dmi))

ScalingPairs ==
    {<<PyInt(1), PyInt(2)>>, <<PyInt(2), PyInt(1)>>,
     <<PyFloat(1), PyFloat(2)>>, <<PyInt(3), PyFloat(2)>>}

darkCorrection ==
    /\ calls < MaxCalls
    /\ \E sc \in ScalingPairs :
        Finish(DarkCorrection(MaskedImage(image, mask, variance), calib,
                              sc[1], sc[2]),
               [NoCall EXCEPT !.op = "darkCorrection",
                              !.expscaling = Some(sc[1]),
                              !.darkscaling = Some(sc[2])])
    /\ UNCHANGED <<dims, maskPlaneDict, overscanBBox, defectList>>
    /\ UNCHANGED <<xy0, metadata, amps, returned>>
    /\ UNCHANGED <<calib, calibXY0, gain, lookupTable>>

(***************************************************************************)
(* updateVariance(exposure)                                                *)
(***************************************************************************)
\* a variance that is the image times the gain
UpdateVariance_TimesGain(mi, g) ==
    Returned(MaskedImage(mi.image, mi.mask,
                         [p \in DOMAIN mi.image |-> mi.image[p] * g]))

\* var = ImageF(mi.getImage(), True); var /= gain
UpdateVariance(mi, g) ==
    Returned(MaskedImage(mi.image, mi.mask,
                         [p \in DOMAIN mi.image |-> mi.image[p] \div g]))

updateVariance ==
    /\ calls < MaxCalls
    /\ Finish(UpdateVariance(MaskedImage(image, mask, variance), gain),
              [NoCall EXCEPT !.op = "updateVariance"])
    /\ UNCHANGED <<dims, maskPlaneDict, overscanBBox, defectList>>
    /\ UNCHANGED <<xy0, metadata, amps, returned>>
    /\ UNCHANGED <<calib, calibXY0, gain, lookupTable>>

(***************************************************************************)
(* flatCorrection(exposure, flat, scalingtype, scaling = 1.0)              *)
(***************************************************************************)
\* an unrecognised scaling type falling through with the initial scaling of 1.0
FlatCorrection_NoElse(mi, fmi, d, scalingtype, scaling) ==
    LET flatImage == WholeImage(fmi.image, d)
        divided(s) == IF ~SameDimensions(mi, fmi) THEN MismatchedDimensions(mi)
                      ELSE Returned(scaledDivides(mi, s, fmi))
    IN  IF scalingtype = "MEAN"
        THEN divided(Ratio(SumSeq(flatImage), Len(flatImage)))
        ELSE IF scalingtype = "MEDIAN"
        THEN divided(<<Median(flatImage), 1>>)
        ELSE IF scalingtype = "USER"
        THEN divided(<<scaling, 1>>)
        ELSE divided(<<Counts(1), 1>>)

FlatCorrection(mi, fmi, d, scalingtype, scaling) ==
    LET flatImage == WholeImage(fmi.image, d)
        divided(s) == IF ~SameDimensions(mi, fmi) THEN MismatchedDimensions(mi)
                      ELSE Returned(scaledDivides(mi, s, fmi))
    IN  IF scalingtype = "MEAN"
        THEN divided(Ratio(SumSeq(flatImage), Len(flatImage)))
        ELSE IF scalingtype = "MEDIAN"
        THEN divided(<<Median(flatImage), 1>>)
        ELSE IF scalingtype = "USER"
        THEN divided(<<scaling, 1>>)
        ELSE Raised("NotImplemented", mi)

ScalingTypes == {"MEAN", "MEDIAN", "USER", "BOGUS"}
UserScalings == {Counts(1), Counts(2)}

\* the scaling argument is read for USER alone; other callers leave the default
ScalingModes ==
    {<<t, Counts(1)>> : t \in ScalingTypes} \cup {<<"USER", Counts(2)>>}

flatCorrection ==
    /\ calls < MaxCalls
    /\ \E sm \in ScalingModes :
        Finish(FlatCorrection(MaskedImage(image, mask, variance), calib,
                              DimsOf(calib.image), sm[1], sm[2]),
               [NoCall EXCEPT !.op = "flatCorrection",
                              !.scalingtype = sm[1], !.scaling = Some(sm[2])])
    /\ UNCHANGED <<dims, maskPlaneDict, overscanBBox, defectList>>
    /\ UNCHANGED <<xy0, metadata, amps, returned>>
    /\ UNCHANGED <<calib, calibXY0, gain, lookupTable>>

(***************************************************************************)
(* illuminationCorrection(exposure, illum, illumscaling)                   *)
(***************************************************************************)
IlluminationCorrection(mi, imi, illumscaling) ==
    IF ~SameDimensions(mi, imi) THEN MismatchedDimensions(mi)
    ELSE Returned(scaledDivides(mi, <<illumscaling, 1>>, imi))

illuminationCorrection ==
    /\ calls < MaxCalls
    /\ \E illumscaling \in UserScalings :
        Finish(IlluminationCorrection(MaskedImage(image, mask, variance), calib,
                                      illumscaling),
               [NoCall EXCEPT !.op = "illuminationCorrection",
                              !.scaling = Some(illumscaling)])
    /\ UNCHANGED <<dims, maskPlaneDict, overscanBBox, defectList>>
    /\ UNCHANGED <<xy0, metadata, amps, returned>>
    /\ UNCHANGED <<calib, calibXY0, gain, lookupTable>>

(***************************************************************************)
(* lookupTableFromPolicy(tablePolicy) and linearization(exposure,          *)
(* lookupTable)                                                            *)
(***************************************************************************)
TableLen == 5       \* entries of a lookup table

\* the table that maps every index to itself (Replace) or scales by it
TableValues == [i \in 1 .. TableLen |-> Counts(i - 1)]

TablePolicy(type, length, value) == [type |-> type, length |-> length, value |-> value]

LookupTable(kind, values) == [kind |-> kind, values |-> values]

LookupTableFromPolicy(tablePolicy) ==
    IF Len(tablePolicy.value) # tablePolicy.length
    THEN [status |-> "error", error |-> "AssertionError", table |-> None]
    ELSE IF tablePolicy.type = "Replace"
    THEN [status |-> "ok", error |-> "",
          table |-> Some(LookupTable("Replace", tablePolicy.value))]
    ELSE IF tablePolicy.type = "Multiplicative"
    THEN [status |-> "ok", error |-> "",
          table |-> Some(LookupTable("Multiplicative", tablePolicy.value))]
    ELSE [status |-> "ok", error |-> "", table |-> None]

TableTypes == {"Replace", "Multiplicative", "Polynomial"}

lookupTableFromPolicy ==
    /\ calls < MaxCalls
    /\ \E type \in TableTypes, length \in {TableLen - 1, TableLen} :
        LET tablePolicy == TablePolicy(type, length, TableValues)
            r == LookupTableFromPolicy(tablePolicy)
        IN  /\ Finish([status |-> r.status, error |-> r.error,
                       mi |-> MaskedImage(image, mask, variance)],
                      [NoCall EXCEPT !.op = "lookupTableFromPolicy",
                                     !.tablePolicy = Some(tablePolicy)])
            /\ lookupTable' = IF r.status = "ok" THEN r.table ELSE lookupTable
    /\ UNCHANGED <<dims, maskPlaneDict, overscanBBox, defectList>>
    /\ UNCHANGED <<calib, calibXY0, gain>>
    /\ UNCHANGED <<xy0, metadata, amps, returned>>

\* index of a pixel in the table: the pixel value scaled by the gain, rounded
TableIndex(v, g) == (v * g + 1) \div 2

\* lookupTable.apply(mi, gain)
ApplyTable(table, mi, g) ==
    IF \E p \in DOMAIN mi.image :
          TableIndex(mi.image[p], g) \notin 0 .. Len(table.values) - 1
    THEN Raised("RangeError", mi)
    ELSE Returned(MaskedImage(
             [p \in DOMAIN mi.image |->
                 LET t == table.values[TableIndex(mi.image[p], g) + 1]
                 IN  IF table.kind = "Replace" THEN t
                     ELSE (mi.image[p] * t) \div 2],
             mi.mask, mi.variance))

Linearization(mi, table, g) ==
    IF table = None THEN Raised("AttributeError", mi)
    ELSE ApplyTable(table[1], mi, g)

linearization ==
    /\ calls < MaxCalls
    /\ Finish(Linearization(MaskedImage(image, mask, variance), lookupTable, gain),
              [NoCall EXCEPT !.op = "linearization"])
    /\ UNCHANGED <<dims, maskPlaneDict, overscanBBox, defectList>>
    /\ UNCHANGED <<xy0, metadata, amps, returned>>
    /\ UNCHANGED <<calib, calibXY0, gain, lookupTable>>

(***************************************************************************)
(* The calibration scenario: an exposure built by exposureFromInputData    *)
(* and one calibration frame of its size, to which the caller applies the  *)
(* calibration operations in the order of their choice.                    *)
(***************************************************************************)
CalibW == 4         \* plane of the calibration scenario
CalibH == 3
CalibDims == <<CalibW, CalibH>>

Gains == {1, 2}

\* exposureFromInputData: mask.set(0); var = ImageF(image, True); var /= gain
ExposureFromInputData(img, g) ==
    MaskedImage(img, [p \in DOMAIN img |-> 0], [p \in DOMAIN img |-> img[p] \div g])

\* raw frames: one of value 10 throughout, one of low counts 1 and 2
ScienceImages ==
    {[p \in Pixels(CalibDims) |-> SetVal],
     [p \in Pixels(CalibDims) |-> Counts(1 + (p[1] % 2))]}

\* calibration frames: one of value 2 throughout, one of value 1 with a
\* flagged pixel of value 2 in its corner; variance 1
CalibFrames ==
    {MaskedImage([p \in Pixels(CalibDims) |-> Counts(2)],
                 [p \in Pixels(CalibDims) |-> 0],
                 [p \in Pixels(CalibDims) |-> VarianceValue]),
     MaskedImage([p \in Pixels(CalibDims) |->
                     IF p = <<0, 0>> THEN Counts(2) ELSE Counts(1)],
                 [p \in Pixels(CalibDims) |->
                     IF p = <<0, 0>>
                     THEN getPlaneBitMask(DefaultMaskPlaneDict, "BAD") ELSE 0],
                 [p \in Pixels(CalibDims) |-> VarianceValue])}

InitCalib ==
    /\ dims = CalibDims
    /\ overscanBBox = NoBox
    /\ gain \in Gains
    /\ \E img \in ScienceImages :
          /\ image = ExposureFromInputData(img, gain).image
          /\ mask = ExposureFromInputData(img, gain).mask
          /\ variance = ExposureFromInputData(img, gain).variance
    /\ calib \in CalibFrames
    /\ calibXY0 = <<0, 0>>
    /\ maskPlaneDict = DefaultMaskPlaneDict
    /\ defectList = <<>>
    /\ lookupTable = None
    /\ history = <<"exposureFromInputData">>
    /\ image0 = image
    /\ mask0 = mask
    /\ variance0 = variance
    /\ last = NoCall
    /\ calls = 0
    /\ NoGeometry

NextCalib ==
    \/ biasCorrection
    \/ darkCorrection
    \/ flatCorrection
    \/ illuminationCorrection
    \/ lookupTableFromPolicy
    \/ linearization
    \/ updateVariance

SpecCalib == InitCalib /\ [][NextCalib]_vars

(***************************************************************************)
(* Claims about the calibration operations.                                *)
(***************************************************************************)
\* C13: biasCorrection sets every image pixel to science minus bias, lowers
\* no variance pixel, follows the one policy of adding the bias variance on
\* every call, and does not write the bias frame.
C13_BiasSubtracted ==
    /\ [](last.op = "biasCorrection"
          => /\ last.status = "ok"
             /\ \A p \in Pixels(dims) :
                   /\ image[p] = image0[p] - calib.image[p]
                   /\ variance[p] >= variance0[p]
                   /\ variance[p] = variance0[p] + calib.variance[p])
    /\ [][(last'.op = "biasCorrection" /\ calls' = calls + 1) => calib' = calib]_vars

\* C13 happens: a bias of 2 was taken off an image of 10 and its variance of
\* 1 added to the science variance
C13_Witness ==
    /\ last.op = "biasCorrection"
    /\ \A p \in Pixels(dims) :
          /\ image0[p] = Counts(10)
          /\ calib.image[p] = Counts(2)
          /\ image[p] = Counts(8)
          /\ variance[p] = variance0[p] + Counts(1)

\* C14 as claimed: darkCorrection sets every image pixel to science minus
\* (expscaling/darkscaling) times dark, with the true quotient of the two
\* scalings also when both are integers.
C14_DarkScaledByTrueQuotient ==
    last.op = "darkCorrection"
    => /\ last.status = "ok"
       /\ \A p \in Pixels(dims) :
             image[p] = image0[p]
                 - ((last.expscaling[1].v * calib.image[p])
                        \div last.darkscaling[1].v)

\* the pixels of the flat left by the clipping
ClippedFlat == SigmaClip(WholeImage(calib.image, dims), NumIter)

\* the scaling the claim names for the last call, as a quotient
ClaimedFlatScaling ==
    IF last.scalingtype = "MEAN" THEN Ratio(SumSeq(ClippedFlat), Len(ClippedFlat))
    ELSE IF last.scalingtype = "MEDIAN" THEN <<Median(ClippedFlat), 1>>
    ELSE <<last.scaling[1], 1>>

\* C15 as claimed: flatCorrection takes flatScaling as the clipped mean of the
\* flat image for MEAN, the clipped median for MEDIAN and the caller's scaling
\* for USER, and divides every science pixel by flat/flatScaling.
C15_FlatScalingClipped ==
    (last.op = "flatCorrection" /\ last.scalingtype \in {"MEAN", "MEDIAN", "USER"})
    => /\ last.status = "ok"
       /\ \A p \in Pixels(dims) :
             image[p] = (image0[p] * ClaimedFlatScaling[1])
                            \div (ClaimedFlatScaling[2] * calib.image[p])

\* C16: flatCorrection with a scaling type other than MEAN, MEDIAN or USER
\* fails, and image, mask and variance are as before the call.
C16_UnknownScalingFails ==
    (last.op = "flatCorrection" /\ last.scalingtype \notin {"MEAN", "MEDIAN", "USER"})
    => /\ last.status = "error"
       /\ image = image0
       /\ mask = mask0
       /\ variance = variance0

\* C16 happens: a flatCorrection with scaling type BOGUS on an exposure that
\* an earlier bias subtraction had changed
C16_Witness ==
    /\ last.op = "flatCorrection"
    /\ last.scalingtype = "BOGUS"
    /\ last.status = "error"
    /\ history = <<"exposureFromInputData", "biasCorrection">>
    /\ image = image0

\* C17 as claimed: lookupTableFromPolicy builds a Replace table for type
\* Replace and a Multiplicative table for type Multiplicative, only when the
\* declared length equals the number of values, and rejects a table of any
\* other type with an error.
C17_OtherTableTypeRejected ==
    last.op = "lookupTableFromPolicy"
    => LET tablePolicy == last.tablePolicy[1]
       IN  /\ (tablePolicy.type \in {"Replace", "Multiplicative"}
               /\ tablePolicy.length = Len(tablePolicy.value))
              => /\ last.status = "ok"
                 /\ lookupTable = Some(LookupTable(tablePolicy.type, tablePolicy.value))
           /\ tablePolicy.length # Len(tablePolicy.value) => last.status = "error"
           /\ tablePolicy.type \notin {"Replace", "Multiplicative"}
              => last.status = "error"

\* C18: updateVariance sets every variance pixel to the image pixel divided
\* by the gain and leaves image and mask as they were.
C18_VarianceFromGain ==
    last.op = "updateVariance"
    => /\ last.status = "ok"
       /\ \A p \in Pixels(dims) : variance[p] = image0[p] \div gain
       /\ image = image0
       /\ mask = mask0

\* C18 happens: at gain 2, after a bias subtraction had left the variance
\* plane away from image/gain, updateVariance set it to 4 for an image of 8
C18_Witness ==
    /\ last.op = "updateVariance"
    /\ gain = 2
    /\ history = <<"exposureFromInputData", "biasCorrection", "updateVariance">>
    /\ \A p \in Pixels(dims) :
          /\ image[p] = Counts(8)
          /\ variance0[p] # Counts(4)
          /\ variance[p] = Counts(4)

(***************************************************************************)
(* Claims about the order of the operations.                               *)
(***************************************************************************)
\* the operations that derive the variance plane from image/gain
VarianceDerivations == {"exposureFromInputData", "updateVariance"}

\* the multiplicative corrections
MultiplicativeCorrections ==
    {"flatCorrection", "illuminationCorrection", "linearization"}

Positions(ops) == {i \in 1 .. Len(history) : history[i] \in ops}

\* C19 as claimed: the variance plane is derived from image/gain once, and
\* only after all multiplicative corrections: no derivation precedes a flat,
\* illumination or linearization step.
C19_VarianceDerivedOnceAfterCorrections ==
    /\ Cardinality(Positions(VarianceDerivations)) <= 1
    /\ \A i \in Positions(VarianceDerivations) :
          \A j \in Positions(MultiplicativeCorrections) : j < i

\* position of an operation in the correction sequence; 0 for an operation
\* that is no stage of it
StageOf(op) ==
    IF op = "overscanCorrection" THEN 1
    ELSE IF op = "trimNew" THEN 2
    ELSE IF op = "biasCorrection" THEN 3
    ELSE IF op = "darkCorrection" THEN 4
    ELSE IF op = "flatCorrection" THEN 5
    ELSE IF op = "linearization" THEN 6
    ELSE IF op = "saturationDetection" THEN 7
    ELSE IF op \in {"interpolateDefectList", "maskBadPixelsDef"} THEN 8
    ELSE 0

\* C20 as claimed: under any sequence of calls the stages are entered only
\* forwards: none twice and none after a later one, while a stage may be left
\* out without an error.
C20_StagesOnlyForward ==
    \A i, j \in 1 .. Len(history) :
        (i < j /\ StageOf(history[i]) > 0 /\ StageOf(history[j]) > 0)
        => StageOf(history[i]) < StageOf(history[j])

(***************************************************************************)
(* Claims about corrections that fail part-way.                            *)
(***************************************************************************)
\* C27: maskBadPixelsDef with interpolate true and no or a non-positive fwhm
\* fails, and at that point the bit of maskName is set on every defect pixel
\* while the image plane is as it was: the masking is not rolled back.
C27_MaskingNotRolledBack ==
    (/\ last.op = "maskBadPixelsDef"
     /\ last.interpolate
     /\ (last.fwhm = None \/ last.fwhm[1] <= 0))
    => /\ last.status = "error"
       /\ \A p \in Pixels(dims) :
             IsDefect(p)
             => HasBits(mask[p], getPlaneBitMask(maskPlaneDict, last.maskName))
       /\ image = image0

\* C27 happens: a call without fwhm failed over two defects, and a pixel that
\* had no BAD bit carries it after the failure
C27_Witness ==
    /\ last.op = "maskBadPixelsDef"
    /\ last.interpolate
    /\ last.fwhm = None
    /\ last.maskName = "BAD"
    /\ last.status = "error"
    /\ Len(defectList) = 2
    /\ \E p \in Pixels(dims) :
          /\ IsDefect(p)
          /\ ~HasBits(mask0[p], getPlaneBitMask(maskPlaneDict, "BAD"))
          /\ HasBits(mask[p], getPlaneBitMask(maskPlaneDict, "BAD"))

(***************************************************************************)
(* Section strings.  A string is a sequence of one-character strings.      *)
(***************************************************************************)
DigitChars == <<"0", "1", "2", "3", "4", "5", "6", "7", "8", "9">>

IsDigit(c) == \E i \in 1 .. 10 : DigitChars[i] = c
DigitValue(c) == (CHOOSE i \in 1 .. 10 : DigitChars[i] = c) - 1

\* the decimal numeral of a natural number
RECURSIVE Numeral(_)
Numeral(n) ==
    IF n < 10 THEN <<DigitChars[n + 1]>>
    ELSE Numeral(n \div 10) \o <<DigitChars[(n % 10) + 1]>>

\* datasec.replace(' ', '')
RemoveSpaces(str) == SelectSeq(str, LAMBDA c : c # " ")

\* re.split('[\[\],:]', str): the pieces between the delimiters, empty ones kept
SectionDelimiters == {"[", "]", ",", ":"}

RECURSIVE Split(_, _)
Split(str, piece) ==
    IF str = <<>> THEN <<piece>>
    ELSE IF Head(str) \in SectionDelimiters
         THEN <<piece>> \o Split(Tail(str), <<>>)
         ELSE Split(Tail(str), Append(piece, Head(str)))

\* int(piece) is defined for an optional sign followed by one or more digits
IsInt(piece) ==
    LET digits == IF piece # <<>> /\ Head(piece) \in {"+", "-"}
                  THEN Tail(piece) ELSE piece
    IN  digits # <<>> /\ \A i \in 1 .. Len(digits) : IsDigit(digits[i])

RECURSIVE DigitsValue(_)
DigitsValue(digits) ==
    IF digits = <<>> THEN 0
    ELSE 10 * DigitsValue(SubSeq(digits, 1, Len(digits) - 1))
            + DigitValue(digits[Len(digits)])

\* int(piece)
IntOf(piece) ==
    IF Head(piece) = "-" THEN 0 - DigitsValue(Tail(piece))
    ELSE IF Head(piece) = "+" THEN DigitsValue(Tail(piece))
    ELSE DigitsValue(piece)

\* afwGeom.Box2I(minimum, maximum): a component whose maximum lies below its
\* minimum has the two swapped
Box2IFromCorners(minx, miny, maxx, maxy) ==
    Box2I(IF maxx < minx THEN maxx ELSE minx, IF maxy < miny THEN maxy ELSE miny,
          IF maxx < minx THEN minx ELSE maxx, IF maxy < miny THEN miny ELSE maxy)

(***************************************************************************)
(* BBoxFromDatasec(datasec)                                                *)
(***************************************************************************)
\* a conversion that keeps the 1-based coordinates of the string
BBoxFromDatasec_OneBased(datasec) ==
    LET pieces == Split(RemoveSpaces(datasec), <<>>)
    IN  IF Len(pieces) # 6
        THEN [status |-> "error", error |-> "ValueError", bbox |-> None]
        ELSE IF \E i \in 2 .. 5 : ~IsInt(pieces[i])
        THEN [status |-> "error", error |-> "ValueError", bbox |-> None]
        ELSE [status |-> "ok", error |-> "",
              bbox |-> Some(Box2IFromCorners(IntOf(pieces[2]), IntOf(pieces[4]),
                                             IntOf(pieces[3]), IntOf(pieces[5])))]

\* jnk,x1,x2,y1,y2,jnk = re.split(...); Box2I(Point2I(int(x1)-1, int(y1)-1),
\* Point2I(int(x2)-1, int(y2)-1))
BBoxFromDatasec(datasec) ==
    LET pieces == Split(RemoveSpaces(datasec), <<>>)
    IN  IF Len(pieces) # 6
        THEN [status |-> "error", error |-> "ValueError", bbox |-> None]
        ELSE IF \E i \in 2 .. 5 : ~IsInt(pieces[i])
        THEN [status |-> "error", error |-> "ValueError", bbox |-> None]
        ELSE [status |-> "ok", error |-> "",
              bbox |-> Some(Box2IFromCorners(IntOf(pieces[2]) - 1, IntOf(pieces[4]) - 1,
                                             IntOf(pieces[3]) - 1, IntOf(pieces[5]) - 1))]

\* '[x1:x2,y1:y2]'
Section(x1, x2, y1, y2) ==
    <<"[">> \o Numeral(x1) \o <<":">> \o Numeral(x2) \o <<",">>
            \o Numeral(y1) \o <<":">> \o Numeral(y2) \o <<"]">>

\* section strings as callers may write them, well-formed or not
SectionForms ==
    {"plain", "spaced", "bare", "colons", "letter", "three", "empty", "reversed"}

SectionString(form, x1, x2, y1, y2) ==
    IF form = "plain" THEN Section(x1, x2, y1, y2)
    ELSE IF form = "spaced"
    THEN <<"[">> \o Numeral(x1) \o <<" ", ":", " ">> \o Numeral(x2) \o <<",", " ">>
                 \o Numeral(y1) \o <<":">> \o Numeral(y2) \o <<" ", "]">>
    ELSE IF form = "bare"
    THEN Numeral(x1) \o <<":">> \o Numeral(x2) \o <<",">>
                     \o Numeral(y1) \o <<":">> \o Numeral(y2)
    ELSE IF form = "colons"
    THEN <<"[">> \o Numeral(x1) \o <<":">> \o Numeral(x2) \o <<":">>
                 \o Numeral(y1) \o <<":">> \o Numeral(y2) \o <<"]">>
    ELSE IF form = "letter"
    THEN <<"[", "x">> \o <<":">> \o Numeral(x2) \o <<",">>
                      \o Numeral(y1) \o <<":">> \o Numeral(y2) \o <<"]">>
    ELSE IF form = "three"
    THEN <<"[">> \o Numeral(x1) \o <<":">> \o Numeral(x2) \o <<",">>
                 \o Numeral(y1) \o <<"]">>
    ELSE IF form = "empty"
    THEN <<"[", ":">> \o Numeral(x2) \o <<",">>
                      \o Numeral(y1) \o <<":">> \o Numeral(y2) \o <<"]">>
    ELSE <<"]">> \o Numeral(x1) \o <<",">> \o Numeral(x2) \o <<",">>
                 \o Numeral(y1) \o <<",">> \o Numeral(y2) \o <<"[">>

\* the coordinates of '[1:10,11:13]' and their neighbours
SectionCoords == {1, 2, 10, 11, 13}

bboxFromDatasec ==
    /\ calls = 0
    /\ \E form \in SectionForms, x1 \in SectionCoords, x2 \in SectionCoords,
          y1 \in SectionCoords, y2 \in SectionCoords :
        LET datasec == SectionString(form, x1, x2, y1, y2)
            r == BBoxFromDatasec(datasec)
        IN  /\ Finish([status |-> r.status, error |-> r.error,
                       mi |-> MaskedImage(image, mask, variance)],
                      [NoCall EXCEPT !.op = "BBoxFromDatasec",
                                     !.datasec = Some(datasec)])
            /\ returned' = r.bbox
    /\ UNCHANGED <<dims, maskPlaneDict, overscanBBox, defectList>>
    /\ UNCHANGED <<xy0, metadata, amps>>
    /\ UNCHANGED <<calib, calibXY0, gain, lookupTable>>

(***************************************************************************)
(* trimNew(exposure, ampBBox, trimsec = None, trimsecKeyword = 'trimsec')  *)
(***************************************************************************)
Exposure(d, origin, mi, md) ==
    [dims |-> d, xy0 |-> origin, image |-> mi.image, mask |-> mi.mask,
     variance |-> mi.variance, metadata |-> md]

\* metadata.remove(keyword)
RemoveKey(md, keyword) == [k \in DOMAIN md \ {keyword} |-> md[k]]

\* a plane of the sub-exposure ExposureF(exposure, bbox, False)
SubPlane(plane, b) ==
    [p \in Pixels(<<BoxWidth(b), BoxHeight(b)>>) |-> plane[<<b.x0 + p[1], b.y0 + p[2]>>]]

\* the outcome of trimNew: what it returns and the metadata of its input
Trimmed(exposure, md) ==
    [status |-> "ok", error |-> "", returned |-> Some(exposure), metadata |-> md]
TrimFailed(err, md) ==
    [status |-> "error", error |-> err, returned |-> None, metadata |-> md]

\* sharedMetadata: whether the sub-exposure made without a deep copy holds the
\* metadata of its parent or a copy of it, which is the library's choice
TrimNew(d, mi, md, ampBBox, trimsecArg, trimsecKeyword, sharedMetadata) ==
    LET trimsec == IF trimsecKeyword \in DOMAIN md /\ trimsecArg = None
                   THEN Some(md[trimsecKeyword]) ELSE trimsecArg
    IN  IF trimsec = None THEN TrimFailed("LsstException", md)
        ELSE LET r == BBoxFromDatasec(trimsec[1])
             IN  IF r.status # "ok" THEN TrimFailed(r.error, md)
                 ELSE LET trimsecBBox == r.bbox[1]
                      IN  IF ~(BoxWidth(trimsecBBox) = BoxWidth(ampBBox)
                               /\ BoxHeight(trimsecBBox) = BoxHeight(ampBBox))
                          THEN TrimFailed("NameError", md)
                          ELSE IF \E p \in {<<trimsecBBox.x0, trimsecBBox.y0>>,
                                           <<trimsecBBox.x1, trimsecBBox.y1>>} :
                                     p \notin Pixels(d)
                          THEN TrimFailed("LengthError", md)
                          ELSE Trimmed(
                                   Exposure(<<BoxWidth(trimsecBBox), BoxHeight(trimsecBBox)>>,
                                            <<ampBBox.x0, ampBBox.y0>>,
                                            MaskedImage(SubPlane(mi.image, trimsecBBox),
                                                        SubPlane(mi.mask, trimsecBBox),
                                                        SubPlane(mi.variance, trimsecBBox)),
                                            RemoveKey(md, trimsecKeyword)),
                                   IF sharedMetadata
                                   THEN RemoveKey(md, trimsecKeyword) ELSE md)

\* trim sections over the plane, and one without its brackets
TrimSections ==
    {Section(x1, x2, y1, y2) : x1 \in 1 .. PlaneW, x2 \in 1 .. PlaneW,
                               y1 \in 1 .. PlaneH, y2 \in 1 .. PlaneH}
        \cup {SectionString("bare", 1, 2, 1, 2)}

\* the trim sections an exposure may carry in its metadata
MetadataSections == {Section(1, 2, 1, 2), Section(2, 3, 1, 1)}

trimNew ==
    /\ calls = 0
    /\ \E ampBBox \in ValidBoxesIn(PlaneDims),
          trimsec \in {None} \cup {Some(t) : t \in TrimSections},
          sharedMetadata \in BOOLEAN :
        \E r \in {TrimNew(dims, MaskedImage(image, mask, variance), metadata,
                          ampBBox, trimsec, "trimsec", sharedMetadata)} :
            /\ Finish([status |-> r.status, error |-> r.error,
                       mi |-> MaskedImage(image, mask, variance)],
                      [NoCall EXCEPT !.op = "trimNew",
                                     !.ampBBox = Some(ampBBox),
                                     !.trimsec = trimsec,
                                     !.metadata = Some(metadata)])
            /\ returned' = r.returned
            /\ metadata' = r.metadata
    /\ UNCHANGED <<dims, maskPlaneDict, overscanBBox, defectList>>
    /\ UNCHANGED <<xy0, amps>>
    /\ UNCHANGED <<calib, calibXY0, gain, lookupTable>>

(***************************************************************************)
(* The trimming scenario: an untrimmed exposure at the origin whose        *)
(* metadata may name its trim section.                                     *)
(***************************************************************************)
InitTrim ==
    /\ dims = PlaneDims
    /\ overscanBBox = NoBox
    /\ image = [p \in Pixels(PlaneDims) |-> Counts(1 + p[1] + PlaneW * p[2])]
    /\ mask = [p \in Pixels(PlaneDims) |-> 0]
    /\ variance = [p \in Pixels(PlaneDims) |-> VarianceValue]
    /\ maskPlaneDict = DefaultMaskPlaneDict
    /\ defectList = <<>>
    /\ image0 = image
    /\ mask0 = mask
    /\ variance0 = variance
    /\ last = NoCall
    /\ calls = 0
    /\ NoCalibration
    /\ xy0 = <<0, 0>>
    /\ metadata \in {NoMetadata} \cup {[k \in {"trimsec"} |-> t] : t \in MetadataSections}
    /\ amps = <<>>
    /\ returned = None

NextTrim == bboxFromDatasec \/ trimNew

SpecTrim == InitTrim /\ [][NextTrim]_vars

(***************************************************************************)
(* Claims about section strings and trimming.                              *)
(***************************************************************************)
\* the string, spaces ignored, reads '[x1:x2,y1:y2]'
Reads(datasec, x1, x2, y1, y2) == RemoveSpaces(datasec) = Section(x1, x2, y1, y2)

\* the string is well-formed and names a box of positive area
WellFormedSection(datasec) ==
    \E x1 \in SectionCoords, x2 \in SectionCoords,
       y1 \in SectionCoords, y2 \in SectionCoords :
        x1 <= x2 /\ y1 <= y2 /\ Reads(datasec, x1, x2, y1, y2)

\* C22: BBoxFromDatasec turns a well-formed '[x1:x2,y1:y2]' with x1<=x2 and
\* y1<=y2 into the 0-based inclusive box from (x1-1, y1-1) to (x2-1, y2-1),
\* of width x2-x1+1 and height y2-y1+1.
C22_SectionToBox ==
    last.op = "BBoxFromDatasec"
    => \A x1 \in SectionCoords, x2 \in SectionCoords,
          y1 \in SectionCoords, y2 \in SectionCoords :
           (x1 <= x2 /\ y1 <= y2 /\ Reads(last.datasec[1], x1, x2, y1, y2))
           => /\ last.status = "ok"
              /\ returned = Some(Box2I(x1 - 1, y1 - 1, x2 - 1, y2 - 1))
              /\ BoxWidth(returned[1]) = x2 - x1 + 1
              /\ BoxHeight(returned[1]) = y2 - y1 + 1

\* C22 happens: '[1:10,11:13]' gave the box from (0,10) to (9,12)
C22_Witness ==
    /\ last.op = "BBoxFromDatasec"
    /\ last.datasec = Some(<<"[", "1", ":", "1", "0", ",", "1", "1", ":", "1", "3", "]">>)
    /\ returned = Some(Box2I(0, 10, 9, 12))

\* C23 as claimed: BBoxFromDatasec fails for every string that is not a
\* well-formed '[x1:x2,y1:y2]' and for every string whose box would have
\* x2<x1 or y2<y1, and returns no box for such input.
C23_MalformedSectionFails ==
    (last.op = "BBoxFromDatasec" /\ ~WellFormedSection(last.datasec[1]))
    => (last.status = "error" /\ returned = None)

\* the exceptions of the library
LibraryExceptions == {"LsstException", "LengthError"}

\* the trim section a call works with: its argument, or else the metadata entry
TrimsecOf(call) ==
    IF call.trimsec # None THEN call.trimsec
    ELSE IF "trimsec" \in DOMAIN call.metadata[1]
    THEN Some(call.metadata[1]["trimsec"])
    ELSE None

\* the trim section of the call names a box of other dimensions than ampBBox
TrimsecMismatch(call) ==
    /\ TrimsecOf(call) # None
    /\ LET r == BBoxFromDatasec(TrimsecOf(call)[1])
       IN  /\ r.status = "ok"
           /\ ~(BoxWidth(r.bbox[1]) = BoxWidth(call.ampBBox[1])
                /\ BoxHeight(r.bbox[1]) = BoxHeight(call.ampBBox[1]))

\* C29 as claimed: trimNew returns a new exposure of the dimensions of the
\* trim section with its origin at the min corner of ampBBox and leaves the
\* dimensions and the trim-section metadata entry of its input as they were;
\* without a trim section, and with one whose dimensions differ from those of
\* ampBBox, it fails with a library exception and returns no exposure.
C29_TrimReturnsNewExposure ==
    last.op = "trimNew"
    => /\ last.status = "ok"
          => LET trimsecBBox == BBoxFromDatasec(TrimsecOf(last)[1]).bbox[1]
             IN  /\ returned # None
                 /\ returned[1].dims = <<BoxWidth(trimsecBBox), BoxHeight(trimsecBBox)>>
                 /\ returned[1].xy0 = <<last.ampBBox[1].x0, last.ampBBox[1].y0>>
                 /\ dims = PlaneDims
                 /\ metadata = last.metadata[1]
       /\ (TrimsecOf(last) = None \/ TrimsecMismatch(last))
          => /\ last.status = "error"
             /\ last.error \in LibraryExceptions
             /\ returned = None

(***************************************************************************)
(* validateCalibration(exposure, calibration, policy) and the corrections  *)
(* that are not implemented: maskBadPixelsFp, fringeCorrection,            *)
(* pupilCorrection                                                         *)
(***************************************************************************)
\* the body of validateCalibration is a docstring and pass
ValidateCalibration(mi, cmi) == Returned(mi)

\* raise RuntimeError, "Do not call me; use MaskBadPixelsDef. ..."
MaskBadPixelsFp(mi) == Raised("RuntimeError", mi)

\* a correction that hands the exposure back untouched
FringeCorrection_NoOp(mi, fringe) == Returned(mi)

\* raise pexExcept.LsstException, '%s not implemented' % (...)
FringeCorrection(mi, fringe) == Raised("LsstException", mi)

\* the message of the raise names stageName, which nothing binds: the
\* statement ends in a NameError before the exception is made
PupilCorrection(mi, pupil) == Raised("NameError", mi)

validateCalibration ==
    /\ calls < MaxCalls
    /\ Finish(ValidateCalibration(MaskedImage(image, mask, variance), calib),
              [NoCall EXCEPT !.op = "validateCalibration"])
    /\ UNCHANGED <<dims, maskPlaneDict, overscanBBox, defectList>>
    /\ UNCHANGED <<xy0, metadata, amps, returned>>
    /\ UNCHANGED <<calib, calibXY0, gain, lookupTable>>

maskBadPixelsFp ==
    /\ calls < MaxCalls
    /\ \E interpolate \in BOOLEAN :
        Finish(MaskBadPixelsFp(MaskedImage(image, mask, variance)),
               [NoCall EXCEPT !.op = "maskBadPixelsFp",
                              !.interpolate = interpolate, !.maskName = "BAD"])
    /\ UNCHANGED <<dims, maskPlaneDict, overscanBBox, defectList>>
    /\ UNCHANGED <<xy0, metadata, amps, returned>>
    /\ UNCHANGED <<calib, calibXY0, gain, lookupTable>>

fringeCorrection ==
    /\ calls < MaxCalls
    /\ Finish(FringeCorrection(MaskedImage(image, mask, variance), calib),
              [NoCall EXCEPT !.op = "fringeCorrection"])
    /\ UNCHANGED <<dims, maskPlaneDict, overscanBBox, defectList>>
    /\ UNCHANGED <<xy0, metadata, amps, returned>>
    /\ UNCHANGED <<calib, calibXY0, gain, lookupTable>>

pupilCorrection ==
    /\ calls < MaxCalls
    /\ Finish(PupilCorrection(MaskedImage(image, mask, variance), calib),
              [NoCall EXCEPT !.op = "pupilCorrection"])
    /\ UNCHANGED <<dims, maskPlaneDict, overscanBBox, defectList>>
    /\ UNCHANGED <<xy0, metadata, amps, returned>>
    /\ UNCHANGED <<calib, calibXY0, gain, lookupTable>>

(***************************************************************************)
(* The frames scenario: a science exposure and a calibration frame that    *)
(* the caller took from anywhere, of the exposure's bounding box or not.   *)
(***************************************************************************)
FrameDims == {PlaneDims, <<PlaneW - 1, PlaneH>>, <<PlaneW, PlaneH - 1>>}
FrameOrigins == {<<0, 0>>, <<1, 0>>}

UniformFrame(d, v) ==
    MaskedImage([p \in Pixels(d) |-> v],
                [p \in Pixels(d) |-> 0],
                [p \in Pixels(d) |-> VarianceValue])

\* the bounding box of a plane of dimensions d at an origin
BBoxOf(origin, d) ==
    Box2I(origin[1], origin[2], origin[1] + d[1] - 1, origin[2] + d[2] - 1)

InitFrames ==
    /\ dims = PlaneDims
    /\ overscanBBox = NoBox
    /\ gain = 1
    /\ \E v \in {Counts(1), SetVal} :
          /\ image = ExposureFromInputData([p \in Pixels(dims) |-> v], gain).image
          /\ mask = ExposureFromInputData([p \in Pixels(dims) |-> v], gain).mask
          /\ variance = ExposureFromInputData([p \in Pixels(dims) |-> v], gain).variance
    /\ \E d \in FrameDims, v \in {Counts(1), Counts(2)} : calib = UniformFrame(d, v)
    /\ calibXY0 \in FrameOrigins
    /\ maskPlaneDict = DefaultMaskPlaneDict
    /\ defectList = <<>>
    /\ lookupTable = None
    /\ history = <<"exposureFromInputData">>
    /\ image0 = image
    /\ mask0 = mask
    /\ variance0 = variance
    /\ last = NoCall
    /\ calls = 0
    /\ NoGeometry

NextFrames ==
    \/ validateCalibration
    \/ biasCorrection
    \/ darkCorrection
    \/ flatCorrection
    \/ illuminationCorrection
    \/ maskBadPixelsFp
    \/ fringeCorrection
    \/ pupilCorrection

SpecFrames == InitFrames /\ [][NextFrames]_vars

(***************************************************************************)
(* Claims about the frames scenario.                                       *)
(***************************************************************************)
NotImplementedCorrections == {"fringeCorrection", "pupilCorrection", "maskBadPixelsFp"}

\* C21: every correction marked not implemented (fringeCorrection,
\* pupilCorrection, maskBadPixelsFp) raises an error on every call and
\* never returns normally, and leaves the image, mask and variance planes
\* of the exposure as they were.
C21_NotImplementedFailsLoudly ==
    last.op \in NotImplementedCorrections
        => /\ last.status = "error"
           /\ last.error # ""
           /\ image = image0
           /\ mask = mask0
           /\ variance = variance0

\* a fringe correction asked for after a correction that went through
C21_Witness ==
    /\ last.op = "fringeCorrection"
    /\ last.status = "error"
    /\ calls = 2
    /\ Len(history) = 2
    /\ image = image0

CalibrationApplications ==
    {"biasCorrection", "darkCorrection", "flatCorrection", "illuminationCorrection"}

BBoxMismatch == BBoxOf(xy0, dims) # BBoxOf(calibXY0, DimsOf(calib.image))

\* C24: biasCorrection, darkCorrection, flatCorrection and
\* illuminationCorrection called with a calibration frame whose bounding
\* box differs from the science exposure's fail with a dimension-mismatch
\* error without changing a science pixel, and validateCalibration rejects
\* such a pair.
C24_MismatchedCalibrationRejected ==
    /\ (last.op \in CalibrationApplications /\ BBoxMismatch)
          => /\ last.status = "error"
             /\ image = image0
    /\ (last.op = "validateCalibration" /\ BBoxMismatch)
          => last.status = "error"

(***************************************************************************)
(* saturationInterpolation(exposure, fwhm, growFootprints, maskName) and   *)
(* saturationCorrection(exposure, saturation, fwhm, growSaturated,         *)
(* interpolate, maskName)                                                  *)
(***************************************************************************)
\* interpolateOverDefects(mi, psf, defectList) takes the fallback the library
\* declares for it, 0.0
DefaultFallback == 0

InterpolateOver(mi, d, boxes, fwhm) ==
    MaskedImage(InterpolateOverDefects(mi.image, d, boxes, KernelSize(fwhm),
                                       DefaultFallback),
                mi.mask, mi.variance)

SaturationInterpolation(mi, d, dict, fwhm, growFootprints, maskName) ==
    LET found == DefectListFromMask(mi, d, dict, growFootprints, maskName)
    IN  [status |-> "ok", error |-> "",
         mi |-> InterpolateOver(mi, d, found.satDefectList, fwhm),
         dict |-> found.dict]

\* for fp in fpList: grow it, set the mask over it and, to interpolate, add
\* its boxes to the defect list
RECURSIVE MaskFootprints(_, _, _, _, _)
MaskFootprints(msk, fpList, growSaturated, bitmask, d) ==
    IF fpList = <<>> THEN msk
    ELSE MaskFootprints(
             setMaskFromFootprint(msk, growFootprint(Head(fpList), growSaturated, d),
                                  bitmask),
             Tail(fpList), growSaturated, bitmask, d)

RECURSIVE BoxesOfFootprints(_, _, _)
BoxesOfFootprints(fpList, growSaturated, d) ==
    IF fpList = <<>> THEN <<>>
    ELSE footprintToBBoxList(growFootprint(Head(fpList), growSaturated, d))
             \o BoxesOfFootprints(Tail(fpList), growSaturated, d)

SaturationCorrection(mi, d, dict, saturation, fwhm, growSaturated, interpolate, maskName) ==
    LET bitmask == getPlaneBitMask(dict, maskName)
        fpList == Footprints(FootprintPixels(mi.image, saturation))
        masked == MaskedImage(mi.image,
                              MaskFootprints(mi.mask, fpList, growSaturated, bitmask, d),
                              mi.variance)
    IN  IF interpolate
        THEN [status |-> "ok", error |-> "",
              mi |-> InterpolateOver(masked, d,
                         BoxesOfFootprints(fpList, growSaturated, d), fwhm),
              dict |-> addMaskPlane(dict, "INTRP")]
        ELSE [status |-> "ok", error |-> "", mi |-> masked, dict |-> dict]

saturationInterpolation ==
    /\ calls < MaxCalls
    /\ \E fwhm \in Fwhms, growFootprints \in GrowRadii, maskName \in MaskNames :
        \E r \in {SaturationInterpolation(MaskedImage(image, mask, variance), dims,
                                          maskPlaneDict, fwhm, growFootprints,
                                          maskName)} :
            /\ Finish(r, [NoCall EXCEPT !.op = "saturationInterpolation",
                                        !.fwhm = Some(fwhm),
                                        !.growFootprints = growFootprints,
                                        !.maskName = maskName])
            /\ maskPlaneDict' = r.dict
    /\ UNCHANGED <<dims, overscanBBox, defectList>>
    /\ UNCHANGED <<xy0, metadata, amps, returned>>
    /\ UNCHANGED <<calib, calibXY0, gain, lookupTable>>

\* growSaturated = False grows by nothing
saturationCorrection ==
    /\ calls < MaxCalls
    /\ \E saturation \in {Counts(50), Counts(150)}, fwhm \in Fwhms,
          growSaturated \in GrowRadii, interpolate \in BOOLEAN,
          maskName \in MaskNames :
        \E r \in {SaturationCorrection(MaskedImage(image, mask, variance), dims,
                                       maskPlaneDict, saturation, fwhm,
                                       growSaturated, interpolate, maskName)} :
            /\ Finish(r, [NoCall EXCEPT !.op = "saturationCorrection",
                                        !.saturation = saturation,
                                        !.fwhm = Some(fwhm),
                                        !.growFootprints = growSaturated,
                                        !.interpolate = interpolate,
                                        !.maskName = maskName])
            /\ maskPlaneDict' = r.dict
    /\ UNCHANGED <<dims, overscanBBox, defectList>>
    /\ UNCHANGED <<xy0, metadata, amps, returned>>
    /\ UNCHANGED <<calib, calibXY0, gain, lookupTable>>

(***************************************************************************)
(* The registry scenario: an exposure with saturated pixels, some of them  *)
(* flagged, and a registry that may or may not have an INTRP plane.        *)
(***************************************************************************)
SaturatedImages ==
    {CarvedImage(<<>>), CarvedImage(<<Box2I(1, 0, 1, 0)>>),
     CarvedImage(<<Box2I(0, 0, 1, 1)>>)}

FlaggedMasks(dict) ==
    {[p \in Pixels(PlaneDims) |-> 0],
     [p \in Pixels(PlaneDims) |->
         IF p = <<0, 0>> THEN getPlaneBitMask(dict, "SAT") ELSE 0],
     [p \in Pixels(PlaneDims) |->
         IF p = <<1, 0>> THEN getPlaneBitMask(dict, "BAD")
         ELSE IF p = <<2, 1>> THEN getPlaneBitMask(dict, "SAT") ELSE 0]}

\* the registry of a caller who cleared it and registered three planes
ClearedMaskPlaneDict == [SAT |-> 0, BAD |-> 1, SUSPECT |-> 2]

InitRegistry ==
    /\ dims = PlaneDims
    /\ overscanBBox = NoBox
    /\ image \in SaturatedImages
    /\ variance = [p \in Pixels(PlaneDims) |-> VarianceValue]
    /\ maskPlaneDict \in {DefaultMaskPlaneDict, BareMaskPlaneDict,
                          ClearedMaskPlaneDict}
    /\ mask \in FlaggedMasks(maskPlaneDict)
    /\ defectList = <<>>
    /\ image0 = image
    /\ mask0 = mask
    /\ variance0 = variance
    /\ last = NoCall
    /\ calls = 0
    /\ NoGeometry
    /\ NoCalibration

NextRegistry ==
    \/ defectListFromMask
    \/ saturationInterpolation
    \/ saturationCorrection

SpecRegistry == InitRegistry /\ [][NextRegistry]_vars

(***************************************************************************)
(* Claims about the mask-plane registry.                                   *)
(***************************************************************************)
RegistersINTRP(call) ==
    \/ call.op \in {"defectListFromMask", "saturationInterpolation"}
    \/ call.op = "saturationCorrection" /\ call.interpolate

\* C25: the registry follows lookup-or-create for INTRP.  After a call of
\* defectListFromMask, of saturationInterpolation or of saturationCorrection
\* that interpolates, the registry holds INTRP, on a bit no other plane has;
\* no call changes the bit of a plane the registry already has, INTRP
\* included, or adds any plane but INTRP; and saturationCorrection with
\* interpolate false leaves the registry as it was.
C25_LookupOrCreateINTRP ==
    /\ [](/\ RegistersINTRP(last) => "INTRP" \in DOMAIN maskPlaneDict
          /\ \A n1, n2 \in DOMAIN maskPlaneDict :
                maskPlaneDict[n1] = maskPlaneDict[n2] => n1 = n2)
    /\ [][/\ \A n \in DOMAIN maskPlaneDict :
                /\ n \in DOMAIN maskPlaneDict'
                /\ maskPlaneDict'[n] = maskPlaneDict[n]
          /\ DOMAIN maskPlaneDict' \subseteq DOMAIN maskPlaneDict \cup {"INTRP"}
          /\ (last'.op = "saturationCorrection" /\ ~last'.interpolate)
                => maskPlaneDict' = maskPlaneDict]_vars

\* INTRP created by a first call and found again by a second
C25_Witness ==
    /\ calls = 2
    /\ RegistersINTRP(last)
    /\ \A n \in DOMAIN ClearedMaskPlaneDict :
          maskPlaneDict[n] = ClearedMaskPlaneDict[n]
    /\ maskPlaneDict["INTRP"] = 3
    /\ mask # mask0

(***************************************************************************)
(* Two amplifiers.  Each has an exposure of its own and a thread that runs *)
(* saturationCorrection and defectListFromMask on it, in either order; the *)
(* threads may be switched between any two statements.  The masks of all   *)
(* exposures go to the one registry of the process.                        *)
(***************************************************************************)
AmpSaturation == Counts(50)     \* the arguments every thread passes
AmpFwhm == 2
AmpGrow == 1

Programs ==
    {<<"saturationCorrection", "defectListFromMask">>,
     <<"defectListFromMask", "saturationCorrection">>}

\* registry: the calls the thread made on the registry, in order;
\* mi0, program0, dict0: the planes, the program and the registry the thread
\* started from
Amplifier(mi, program, dict) ==
    [image |-> mi.image, mask |-> mi.mask, variance |-> mi.variance,
     program |-> program, pc |-> "entry", found |-> FALSE, defects |-> <<>>,
     registry |-> <<>>, mi0 |-> mi, program0 |-> program, dict0 |-> dict]

PlanesOf(amp) == MaskedImage(amp.image, amp.mask, amp.variance)

\* the statement after the end of an operation
Return(amp) ==
    [amp EXCEPT !.program = Tail(amp.program),
                !.pc = IF Tail(amp.program) = <<>> THEN "done" ELSE "entry"]

\* saturationCorrection up to the end of its loop: the bit of maskName is
\* looked up and set over every footprint
saturationCorrectionMask(i) ==
    /\ amps[i].pc = "entry"
    /\ Head(amps[i].program) = "saturationCorrection"
    /\ LET r == SaturationCorrection(PlanesOf(amps[i]), dims, maskPlaneDict,
                                     AmpSaturation, AmpFwhm, 0, FALSE, "SAT")
       IN  amps' = [amps EXCEPT ![i] =
                       [@ EXCEPT !.mask = r.mi.mask, !.pc = "interpolate",
                                 !.registry = Append(@, "getPlaneBitMask")]]
    /\ UNCHANGED maskPlaneDict

\* if interpolate: mask.addMaskPlane('INTRP'); interpolateOverDefects(...)
saturationCorrectionInterpolate(i) ==
    /\ amps[i].pc = "interpolate"
    /\ LET r == SaturationCorrection(PlanesOf(amps[i]), dims, maskPlaneDict,
                                     AmpSaturation, AmpFwhm, 0, TRUE, "SAT")
       IN  /\ amps' = [amps EXCEPT ![i] =
                          Return([@ EXCEPT !.image = r.mi.image,
                                           !.mask = r.mi.mask,
                                           !.variance = r.mi.variance,
                                           !.registry = Append(@, "addMaskPlane")])]
           /\ maskPlaneDict' = r.dict

\* defectListFromMask up to its test: 'INTRP' not in mask.getMaskPlaneDict()
defectListFromMaskCheck(i) ==
    /\ amps[i].pc = "entry"
    /\ Head(amps[i].program) = "defectListFromMask"
    /\ LET r == DefectListFromMask(PlanesOf(amps[i]), dims, maskPlaneDict,
                                   AmpGrow, "SAT")
       IN  amps' = [amps EXCEPT ![i] =
                       [@ EXCEPT !.defects = r.satDefectList,
                                 !.found = "INTRP" \in DOMAIN maskPlaneDict,
                                 !.pc = "checked",
                                 !.registry = @ \o <<"getPlaneBitMask",
                                                     "getMaskPlaneDict">>]]
    /\ UNCHANGED maskPlaneDict

\* mask.addMaskPlane('INTRP') when the test found none; return satDefectList
defectListFromMaskAdd(i) ==
    /\ amps[i].pc = "checked"
    /\ IF amps[i].found
       THEN /\ amps' = [amps EXCEPT ![i] = Return(@)]
            /\ UNCHANGED maskPlaneDict
       ELSE /\ amps' = [amps EXCEPT ![i] =
                           Return([@ EXCEPT !.registry = Append(@, "addMaskPlane")])]
            /\ maskPlaneDict' = addMaskPlane(maskPlaneDict, "INTRP")

InitAmps ==
    /\ dims = PlaneDims
    /\ overscanBBox = NoBox
    /\ image = NoFrame.image
    /\ mask = NoFrame.mask
    /\ variance = NoFrame.variance
    /\ maskPlaneDict \in {DefaultMaskPlaneDict, BareMaskPlaneDict,
                          ClearedMaskPlaneDict}
    /\ \E img1, img2 \in SaturatedImages, prog1, prog2 \in Programs :
          amps = <<Amplifier(ExposureFromInputData(img1, 1), prog1, maskPlaneDict),
                   Amplifier(ExposureFromInputData(img2, 1), prog2, maskPlaneDict)>>
    /\ defectList = <<>>
    /\ image0 = image
    /\ mask0 = mask
    /\ variance0 = variance
    /\ last = NoCall
    /\ calls = 0
    /\ xy0 = <<0, 0>>
    /\ metadata = NoMetadata
    /\ returned = None
    /\ NoCalibration

NextAmps ==
    \E i \in 1 .. 2 :
        /\ \/ saturationCorrectionMask(i)
           \/ saturationCorrectionInterpolate(i)
           \/ defectListFromMaskCheck(i)
           \/ defectListFromMaskAdd(i)
        /\ UNCHANGED <<dims, image, mask, variance, overscanBBox, defectList,
                       image0, mask0, variance0, last, calls, history>>
        /\ UNCHANGED <<xy0, metadata, returned>>
        /\ UNCHANGED <<calib, calibXY0, gain, lookupTable>>

SpecAmps == InitAmps /\ [][NextAmps]_vars

(***************************************************************************)
(* Claims about the two amplifiers.                                        *)
(***************************************************************************)
\* a program run from beginning to end with no other thread about
RECURSIVE Alone(_, _, _)
Alone(program, mi, dict) ==
    IF program = <<>> THEN [mi |-> mi, dict |-> dict]
    ELSE LET r == IF Head(program) = "saturationCorrection"
                  THEN SaturationCorrection(mi, PlaneDims, dict, AmpSaturation,
                                            AmpFwhm, 0, TRUE, "SAT")
                  ELSE DefectListFromMask(mi, PlaneDims, dict, AmpGrow, "SAT")
         IN  Alone(Tail(program), r.mi, r.dict)

\* the planes of both exposures are those of the first program run alone
\* and then the second
SameAsOneAfterTheOther ==
    LET first == Alone(amps[1].program0, amps[1].mi0, amps[1].dict0)
        second == Alone(amps[2].program0, amps[2].mi0, first.dict)
    IN  /\ PlanesOf(amps[1]) = first.mi
        /\ PlanesOf(amps[2]) = second.mi

AllDone == \A i \in 1 .. 2 : amps[i].pc = "done"

\* C26: the correction operations of two amplifiers, interleaved in any way,
\* leave each exposure with the image, mask and variance it has when the
\* two sequences run one after the other, and no operation reads or writes
\* state shared between the two, the check-then-add of the INTRP plane
\* included.
C26_AmplifiersIndependent ==
    /\ AllDone => SameAsOneAfterTheOther
    /\ \A i \in 1 .. 2 : amps[i].registry = <<>>

(***************************************************************************)
(* assembleCcd(exposures, ccd, isTrimmed, isOnDisk) of ccdAssemble.py.     *)
(* Every amplifier of the detector has a gain and an exposure of one pixel;*)
(* the assembled image has the pixels of the amplifiers side by side.      *)
(***************************************************************************)
GainDivisor == 16       \* gain /= 16.

\* gain = 0; for a in detector: gain += ...getGain()
RECURSIVE SumOfGains(_)
SumOfGains(detector) ==
    IF detector = <<>> THEN 0
    ELSE Head(detector).gain + SumOfGains(Tail(detector))

\* makeImageFromCcd with the image, mask and variance of every exposure
MakeImageFromCcd(exposures) ==
    MaskedImage([p \in Pixels(<<Len(exposures), 1>>) |->
                    exposures[p[1] + 1].mi.image[<<0, 0>>]],
                [p \in Pixels(<<Len(exposures), 1>>) |->
                    exposures[p[1] + 1].mi.mask[<<0, 0>>]],
                [p \in Pixels(<<Len(exposures), 1>>) |->
                    exposures[p[1] + 1].mi.variance[<<0, 0>>]])

\* mi *= gain: the image times the scalar, the variance times its square
MaskedImageTimesScalar(mi, g) ==
    MaskedImage([p \in DOMAIN mi.image |-> (mi.image[p] * g[1]) \div g[2]],
                mi.mask,
                [p \in DOMAIN mi.variance |->
                    (mi.variance[p] * Square(g[1])) \div Square(g[2])])

\* metadata.set(keyword, value)
SetKey(md, keyword, value) ==
    [k \in DOMAIN md \cup {keyword} |-> IF k = keyword THEN value ELSE md[k]]

AssembleCcd(detector, md) ==
    LET removed == RemoveKey(RemoveKey(md, "BIASSEC"), "DATASEC")
        scale == PyDiv(PyFloat(SumOfGains(detector)), PyFloat(GainDivisor))
        ccdGain == Ratio(scale[1], scale[2])
        mi == MaskedImageTimesScalar(MakeImageFromCcd(detector), ccdGain)
        assembled == SetKey(removed, "GAIN", PyFloat(1))
    IN  [status |-> "ok", error |-> "",
         returned |-> Some(Exposure(<<Len(detector), 1>>, <<0, 0>>, mi, assembled)),
         metadata |-> assembled]

assembleCcd ==
    /\ calls = 0
    /\ \E r \in {AssembleCcd(amps, metadata)} :
        /\ Finish([status |-> r.status, error |-> r.error,
                   mi |-> MaskedImage(image, mask, variance)],
                  [NoCall EXCEPT !.op = "assembleCcd",
                                 !.metadata = Some(metadata)])
        /\ returned' = r.returned
        /\ metadata' = r.metadata
    /\ UNCHANGED <<dims, maskPlaneDict, overscanBBox, defectList>>
    /\ UNCHANGED <<xy0, amps>>
    /\ UNCHANGED <<calib, calibXY0, gain, lookupTable>>

(***************************************************************************)
(* The assembly scenario: detectors of one, two, four and sixteen          *)
(* amplifiers, the gains of the odd and of the even ones alike.            *)
(***************************************************************************)
AmpCounts == {1, 2, 4, GainDivisor}
AmpGains == {1, 2, 3}

AmpExposure(g, v) ==
    [gain |-> g,
     mi |-> MaskedImage([p \in Pixels(<<1, 1>>) |-> v],
                        [p \in Pixels(<<1, 1>>) |-> 0],
                        [p \in Pixels(<<1, 1>>) |-> VarianceValue])]

Detectors ==
    {[i \in 1 .. n |-> AmpExposure(IF i % 2 = 1 THEN g1 ELSE g2,
                                   IF ramp THEN Counts(8 * i) ELSE Counts(16))] :
        n \in AmpCounts, g1 \in AmpGains, g2 \in AmpGains, ramp \in BOOLEAN}

InitAssemble ==
    /\ dims = PlaneDims
    /\ overscanBBox = NoBox
    /\ image = NoFrame.image
    /\ mask = NoFrame.mask
    /\ variance = NoFrame.variance
    /\ maskPlaneDict = DefaultMaskPlaneDict
    /\ defectList = <<>>
    /\ image0 = image
    /\ mask0 = mask
    /\ variance0 = variance
    /\ last = NoCall
    /\ calls = 0
    /\ NoCalibration
    /\ xy0 = <<0, 0>>
    /\ metadata = [k \in {"BIASSEC", "DATASEC"} |-> Section(1, 10, 11, 13)]
    /\ amps \in Detectors
    /\ returned = None

NextAssemble == assembleCcd

SpecAssemble == InitAssemble /\ [][NextAssemble]_vars

(***************************************************************************)
(* Claims about the assembly.                                              *)
(***************************************************************************)
\* C28: assembleCcd takes the gain of every amplifier of the detector and
\* scales the assembled image by their arithmetic mean, the sum of the
\* gains divided by the number of amplifiers, whatever that number is, and
\* the metadata of its output record GAIN = 1.0.
C28_ScaledByMeanGain ==
    last.op = "assembleCcd"
        => LET ccd == returned[1]
               mean == Ratio(SumOfGains(amps), Len(amps))
           IN  /\ \A i \in 1 .. Len(amps) :
                     ccd.image[<<i - 1, 0>>]
                         = (amps[i].mi.image[<<0, 0>>] * mean[1]) \div mean[2]
               /\ ccd.metadata["GAIN"] = PyFloat(1)

====
